---- MODULE Spec2Model ----
(***************************************************************************)
(* Procedural tree generator (vertinski/based-tree-editor).                *)
(*                                                                         *)
(* The standalone generation module: estimateMaxInstances,                 *)
(* collectBranchDataRecursive and generateTreeMatrices.  The recursion is  *)
(* modelled with an explicit call stack, one step per call entry, per      *)
(* child-loop iteration and per return.  The editor (generateTree,         *)
(* saveFullTreeData) and the tree loader (handleFileLoad,                  *)
(* displayLoadedTree) are modelled one step per event handler, and so is   *)
(* the parameter loader (handleFileLoad, the FileReader callbacks, the     *)
(* Regenerate button), whose FileReaders complete in any order.            *)
(*                                                                         *)
(* Number representation (JavaScript doubles are modelled as fixed point): *)
(*   lengths, radii, leaf sizes   integer multiples of 1/10000             *)
(*   lengthFactor, radiusFactor   integer multiples of 1/100               *)
(*   maxDepth                     integer multiples of 1/2 (so that the    *)
(*                                non-integer depths a JSON file may hold  *)
(*                                are representable)                       *)
(*   branchAngle, angleVariance   whole degrees; computed angles are in    *)
(*                                1/100 degree                             *)
(*   lengthVariance               whole percent                            *)
(*   Math.random()                integer multiples of 1/100 in [0, 1)     *)
(* A 4x4 matrix is modelled as the word of primitive transforms whose      *)
(* product it is; matrix multiplication is concatenation of words.         *)
(***************************************************************************)
EXTENDS Integers, Sequences, FiniteSets, TLC

VARIABLES
    pc,              \* "idle" | "running" | "done" | "threw": position of generateTreeMatrices
    config,          \* the argument of the current generateTreeMatrices call
    estimatedMax,    \* const estimatedMax of generateTreeMatrices
    branchMatrices,  \* const branchMatrices = [] of the current call
    leafMatrices,    \* const leafMatrices = [] of the current call
    stack,           \* activation records of collectBranchDataRecursive, top last
    result,          \* the object returned by the current call
    rngTape,         \* the process-wide random source: a periodic stream of draws
    rngPos,          \* position of the next draw in the stream
    rngStart,        \* position of the stream when the current call began
    prev,            \* the previous completed call: its argument and what it returned
    estCalls,        \* instrumentation: calls of estimateMaxInstances in this call
    callLog,         \* instrumentation: one record per collectBranchDataRecursive call
    branchOrigin,    \* instrumentation: for each branch matrix, the call that pushed it
    leafOrigin,      \* instrumentation: for each leaf matrix, the call that pushed it
    treeInstancedMesh,  \* editor: the branch mesh, its count and instance matrices
    leafInstancedMesh,  \* editor: the leaf mesh, its count and instance matrices
    treeDataFile,    \* the file the editor's last save has downloaded
    loaderPc,        \* tree loader: "idle" | "reading" | "displayed" | "invalid" | "failed"
    loaderFile,      \* tree loader: the file handed to the FileReader
    loadedBranchMesh,   \* tree loader: loadedBranchMesh
    loadedLeafMesh,  \* tree loader: loadedLeafMesh
    currentConfig,   \* parameter loader: currentConfig, null or the loaded object
    regenerateButton,   \* parameter loader: the Regenerate button's disabled flag
    generatedBranchMesh,   \* parameter loader: generatedBranchMesh
    generatedLeafMesh,  \* parameter loader: generatedLeafMesh
    readers,         \* parameter loader: one FileReader per file picked, in order
    plEvent          \* instrumentation: the parameter loader's last handler

\* the editor's meshes, the saved file and the tree loader
ioVars == <<treeInstancedMesh, leafInstancedMesh, treeDataFile, loaderPc, loaderFile,
            loadedBranchMesh, loadedLeafMesh>>

\* the parameter loader
plVars == <<currentConfig, regenerateButton, generatedBranchMesh, generatedLeafMesh,
            readers, plEvent>>

vars == <<pc, config, estimatedMax, branchMatrices, leafMatrices, stack, result,
          rngTape, rngPos, rngStart, prev, estCalls, callLog, branchOrigin, leafOrigin,
          treeInstancedMesh, leafInstancedMesh, treeDataFile, loaderPc, loaderFile,
          loadedBranchMesh, loadedLeafMesh, currentConfig, regenerateButton,
          generatedBranchMesh, generatedLeafMesh, readers, plEvent>>

-----------------------------------------------------------------------------
(* Bounds of the model *)

\* largest maxDepth a configuration supplies, in halves (4 = depth 2)
MaxDepthHalves == 4
\* largest numBranches a configuration supplies
MaxBranches == 2
\* period of the random stream
TapeLen == 2
\* largest budget handed to collectBranchDataRecursive on its own
MaxBudget == 6
\* the largest instance count the arithmetic tells apart: Math.pow keeps
\* growing in a double, the model's integers stop here
Huge == 30000

-----------------------------------------------------------------------------
(* Arithmetic helpers *)

Max(a, b) == IF a >= b THEN a ELSE b

\* Math.ceil(n / d) for n >= 0, d > 0
CeilDiv(n, d) == (n + d - 1) \div d

Min(a, b) == IF a <= b THEN a ELSE b

\* a count too large to tell apart from Huge
Clamp(n) == Min(n, Huge)

RECURSIVE Pow(_, _)
\* Math.pow(b, i) for integers b >= 0, i >= 0, by squaring; the square of a
\* clamped count stays within the model's integers
Pow(b, i) ==
    IF i = 0 THEN 1
    ELSE LET h == Pow(b, i \div 2)
         IN  Clamp(Clamp(h * h) * (IF i % 2 = 1 THEN b ELSE 1))

-----------------------------------------------------------------------------
(* Transform primitives (THREE.Matrix4) *)

Identity == << >>

makeScale(x, y, z) == << [op |-> "scale", x |-> x, y |-> y, z |-> z] >>

makeTranslation(x, y, z) == << [op |-> "translate", x |-> x, y |-> y, z |-> z] >>

\* makeRotationFromQuaternion(setFromEuler(new Euler(x, y, z))), default order XYZ
makeRotationFromEuler(x, y, z) == << [op |-> "eulerXYZ", x |-> x, y |-> y, z |-> z] >>

\* makeRotationFromQuaternion(qSpread * qBranch): rotation about Y by spread,
\* composed with rotation about X by tilt
makeRotationFromQuaternion(spread, tilt) ==
    << [op |-> "rotateY", x |-> 0, y |-> spread, z |-> 0],
       [op |-> "rotateX", x |-> tilt, y |-> 0, z |-> 0] >>

multiplyMatrices(a, b) == a \o b

-----------------------------------------------------------------------------
(* Program constants (fixed point, see the header) *)

\* config.maxDepth ?? 5
DefaultMaxDepth == 5
\* config.minRadius ?? 0.1
DefaultMinRadius == 1000
\* config.numBranches ?? 2
DefaultNumBranches == 2
\* config.lengthFactor ?? 0.7
DefaultLengthFactor == 70
\* config.radiusFactor ?? 0.6
DefaultRadiusFactor == 60
\* config.branchAngle ?? 30
DefaultBranchAngle == 30
\* config.angleVariance ?? 10
DefaultAngleVariance == 10
\* config.lengthVariance ?? 10
DefaultLengthVariance == 10
\* config.leafSize ?? 0.5
DefaultLeafSize == 5000
\* config.initialLength ?? 10
DefaultInitialLength == 100000
\* initialLength / 15
InitialRadiusDivisor == 15
\* length <= 0.01
MinSegmentLength == 100
\* config.maxDepth || 5 in the estimator
EstimateDefaultDepth == 5
\* config.numBranches || 2 in the estimator
EstimateDefaultBranches == 2

-----------------------------------------------------------------------------
(* Configuration objects *)

\* the fields the generation module reads
ModuleFields ==
    {"maxDepth", "initialLength", "initialRadius", "lengthFactor", "branchAngle",
     "radiusFactor", "minRadius", "numBranches", "angleVariance", "lengthVariance",
     "leafSize"}

\* config.f ?? d : the default is taken when the field is absent
Nullish(c, f, d) == IF f \in DOMAIN c THEN c[f] ELSE d

\* config.f || d : the default is taken when the field is absent or falsy (0)
OrElse(c, f, d) == IF f \in DOMAIN c /\ c[f] # 0 THEN c[f] ELSE d

\* the object with the fields in S deleted
Omit(c, S) == [f \in (DOMAIN c) \ S |-> c[f]]

\* the object with field f set to v
With(c, f, v) == [g \in (DOMAIN c) \cup {f} |-> IF g = f THEN v ELSE c[g]]

\* the argument of generateTreeMatrices: an object, null or undefined
ObjectArg(c) == [kind |-> "object", fields |-> c]
NullArg == [kind |-> "null", fields |-> [f \in {} |-> 0]]
UndefinedArg == [kind |-> "undefined", fields |-> [f \in {} |-> 0]]

\* a check for undefined alone
NotConfigUndefinedOnly(arg) == arg.kind = "undefined"

\* !config
NotConfig(arg) == arg.kind \in {"null", "undefined"}

-----------------------------------------------------------------------------
(* estimateMaxInstances *)

RECURSIVE SumPowersFrom(_, _, _)
\* the additions count += Math.pow(branches, i) for i = lo .. hi, grouped in
\* halves
SumPowersFrom(branches, lo, hi) ==
    IF lo > hi THEN 0
    ELSE IF lo = hi THEN Pow(branches, lo)
    ELSE LET mid == (lo + hi) \div 2
         IN  Clamp(SumPowersFrom(branches, lo, mid)
                     + SumPowersFrom(branches, mid + 1, hi))

\* the loop: count += Math.pow(branches, i) for i = 0 .. n
SumPowers(branches, n) == SumPowersFrom(branches, 0, n)

\* estimateMaxInstances(config, estimateFactor), the factor counted in halves
estimateMaxInstancesWith(c, factorHalves) ==
    LET depth    == OrElse(c, "maxDepth", 2 * EstimateDefaultDepth)
        branches == OrElse(c, "numBranches", EstimateDefaultBranches)
        \* i <= depth, depth counted in halves
        count    == SumPowers(branches, depth \div 2)
    IN  \* Math.ceil(count * estimateFactor * 1.5)
        CeilDiv(count * factorHalves * 3, 2 * 2)

\* estimateMaxInstances(config): estimateFactor = 1.5
estimateMaxInstances(c) == estimateMaxInstancesWith(c, 3)

-----------------------------------------------------------------------------
(* collectBranchDataRecursive: the values it computes *)

maxDepthOf(c)       == Nullish(c, "maxDepth", 2 * DefaultMaxDepth)
minRadiusOf(c)      == Nullish(c, "minRadius", DefaultMinRadius)
numBranchesOf(c)    == Nullish(c, "numBranches", DefaultNumBranches)
lengthFactorOf(c)   == Nullish(c, "lengthFactor", DefaultLengthFactor)
radiusFactorOf(c)   == Nullish(c, "radiusFactor", DefaultRadiusFactor)
branchAngleOf(c)    == Nullish(c, "branchAngle", DefaultBranchAngle)
angleVarianceOf(c)  == Nullish(c, "angleVariance", DefaultAngleVariance)
\* a wrong default for lengthVariance
lengthVarianceDefaultZero(c) == Nullish(c, "lengthVariance", 0)
lengthVarianceOf(c) == Nullish(c, "lengthVariance", DefaultLengthVariance)
leafSizeOf(c)       == Nullish(c, "leafSize", DefaultLeafSize)

\* the depth test off by one: level > maxDepth
isTerminalOffByOne(c, level, length, radius) ==
    \/ 2 * level > maxDepthOf(c)
    \/ length <= MinSegmentLength
    \/ radius < minRadiusOf(c)

\* the radius test left out
isTerminalNoRadius(c, level, length, radius) ==
    \/ 2 * level >= maxDepthOf(c)
    \/ length <= MinSegmentLength

\* the length test left out
isTerminalNoLength(c, level, length, radius) ==
    \/ 2 * level >= maxDepthOf(c)
    \/ radius < minRadiusOf(c)

\* level >= maxDepth || length <= 0.01 || radius < minRadius
isTerminal(c, level, length, radius) ==
    \/ 2 * level >= maxDepthOf(c)
    \/ length <= MinSegmentLength
    \/ radius < minRadiusOf(c)

\* the limit taken from the branch count alone
reachedLimitBranchOnly(nBranch, nLeaf, est) == nBranch >= est

\* the loop check taken from the leaf count alone
loopLimitLeavesOnly(nBranch, nLeaf, est) == nLeaf >= est - 1

\* branchMatricesArray.length >= estimatedMaxInstances ||
\* leafMatricesArray.length >= estimatedMaxInstances - 1
reachedLimit(nBranch, nLeaf, est) == nBranch >= est \/ nLeaf >= est - 1

\* leafMatricesArray.length < estimatedMaxInstances - 1
canAddLeaves(nLeaf, est) == nLeaf < est - 1

\* the check at the head of the child loop
loopLimit(nBranch, nLeaf, est) == nBranch >= est \/ nLeaf >= est - 1

\* Math.max(radius, minRadius)
actualRadius(c, radius) == Max(radius, minRadiusOf(c))

\* translation * scale of the unit cylinder, then parent * local
worldMatrix(c, parentMatrix, length, radius) ==
    LET scaleMatrixBranch ==
            makeScale(actualRadius(c, radius) * 2, length, actualRadius(c, radius) * 2)
        translationMatrixBranch == makeTranslation(0, length \div 2, 0)
        localMatrix == multiplyMatrices(translationMatrixBranch, scaleMatrixBranch)
    IN  multiplyMatrices(parentMatrix, localMatrix)

\* children that start at the middle of the segment
childBaseMatrixMidpoint(parentMatrix, length) ==
    multiplyMatrices(parentMatrix, makeTranslation(0, length \div 2, 0))

\* parentMatrix * makeTranslation(0, length, 0)
childBaseMatrix(parentMatrix, length) ==
    multiplyMatrices(parentMatrix, makeTranslation(0, length, 0))

baseNextLength(c, length) == (length * lengthFactorOf(c)) \div 100

baseNextRadius(c, radius) == (actualRadius(c, radius) * radiusFactorOf(c)) \div 100

\* numBranches > 1 ? 360 / numBranches : 0, in 1/100 degree
angleStep(c) == IF numBranchesOf(c) > 1 THEN 36000 \div numBranchesOf(c) ELSE 0

\* 1 + (Math.random() - 0.5) * 2 * (lengthVariance / 100), in 1/10000
lenVarFactor(c, r) == 10000 + (r - 50) * 2 * lengthVarianceOf(c)

\* (Math.random() - 0.5) * 2 * angleVariance, in 1/100 degree
angleVar(c, r) == (r - 50) * 2 * angleVarianceOf(c)

\* the jitter as wide as the even spacing itself
spreadVarFullStep(c, r) == ((r - 50) * angleStep(c)) \div 100

\* (Math.random() - 0.5) * (angleStep * 0.4), in 1/100 degree
spreadVar(c, r) == ((r - 50) * ((angleStep(c) * 4) \div 10)) \div 100

nextLength(c, length, r) == (baseNextLength(c, length) * lenVarFactor(c, r)) \div 10000

\* the radius factor left out
nextRadiusUnscaled(c, radius) == actualRadius(c, radius)

nextRadius(c, radius) == baseNextRadius(c, radius)

branchAngleDeg(c, r) == branchAngleOf(c) * 100 + angleVar(c, r)

spreadAngleDeg(c, i, r) == angleStep(c) * i + spreadVar(c, r)

\* childBaseMatrix * rotationMatrix for child i with draws r2 (tilt), r3 (spread)
nextParentMatrix(c, parentMatrix, length, i, r2, r3) ==
    multiplyMatrices(childBaseMatrix(parentMatrix, length),
                     makeRotationFromQuaternion(spreadAngleDeg(c, i, r3),
                                                branchAngleDeg(c, r2)))

\* new Euler(Math.random() * PI, Math.random() * PI * 2, Math.random() * PI), in 1/100 degree
randomRotation(r1, r2, r3) == makeRotationFromEuler(r1 * 180, r2 * 360, r3 * 180)

\* the leaf at the base of a terminal segment
leafMatrixBase(c, parentMatrix, r1, r2, r3) ==
    LET scaleMatrix == makeScale(leafSizeOf(c), leafSizeOf(c), leafSizeOf(c))
    IN  multiplyMatrices(multiplyMatrices(multiplyMatrices(Identity, parentMatrix),
                                          randomRotation(r1, r2, r3)),
                         scaleMatrix)

\* the leaf at the tip of a terminal segment
leafMatrixTip(c, parentMatrix, length, r1, r2, r3) ==
    LET scaleMatrix == makeScale(leafSizeOf(c), leafSizeOf(c), leafSizeOf(c))
        tipMatrix   == multiplyMatrices(parentMatrix, makeTranslation(0, length, 0))
    IN  multiplyMatrices(multiplyMatrices(multiplyMatrices(Identity, tipMatrix),
                                          randomRotation(r1, r2, r3)),
                         scaleMatrix)

\* two draws for each leaf
drawsOfLeavesTwoEach(leaves) == 2 * leaves

\* the Math.random() calls made for the leaves of one terminal segment: each
\* leaf's new Euler(...) takes three
drawsOfLeaves(leaves) == 3 * leaves

\* the level test left out
isLeafSegmentAnyLevel(terminal, level) == terminal

\* isTerminal && level > 0: leaves are not added to the trunk segment
isLeafSegment(terminal, level) == terminal /\ level > 0

\* a budget passed to the recursion that is not the estimate: the estimator
\* called with estimateFactor 3
estimatedMaxDoubled(c) == estimateMaxInstancesWith(c, 6)

\* half the estimate: a budget the tree does not fit in
estimatedMaxHalved(c) == estimateMaxInstances(c) \div 2

\* generateTreeMatrices: const estimatedMax = estimateMaxInstances(config)
estimatedMaxOf(c) == estimateMaxInstances(c)

\* generateTreeMatrices: config.initialLength ?? 10
initialLengthOf(c) == Nullish(c, "initialLength", DefaultInitialLength)

\* generateTreeMatrices: config.initialRadius ?? (initialLength / 15)
initialRadiusOf(c) ==
    Nullish(c, "initialRadius", initialLengthOf(c) \div InitialRadiusDivisor)

-----------------------------------------------------------------------------
(* The configurations the model generates from *)

\* the editor's initial geometry with both variances at 0 and no leafSize
GeomExample ==
    [initialLength |-> 100000, initialRadius |-> 7000, lengthFactor |-> 70,
     radiusFactor |-> 60, minRadius |-> 1000, branchAngle |-> 30,
     angleVariance |-> 0, lengthVariance |-> 0]

\* the editor's initial configuration, as saveTreeParams writes it
GeomEditor ==
    [initialLength |-> 100000, initialRadius |-> 7000, lengthFactor |-> 70,
     radiusFactor |-> 60, minRadius |-> 1000, branchAngle |-> 30,
     angleVariance |-> 10, lengthVariance |-> 10, leafSize |-> 5000,
     taperFactor |-> 68]

\* a thin trunk whose children fall below minRadius; length does not shrink
GeomThin ==
    [initialLength |-> 100000, initialRadius |-> 1500, lengthFactor |-> 100,
     radiusFactor |-> 10, minRadius |-> 1000, branchAngle |-> 45,
     angleVariance |-> 0, lengthVariance |-> 0, leafSize |-> 10000]

\* a short trunk whose children fall below the 0.01 length threshold
GeomShort ==
    [initialLength |-> 120, initialRadius |-> 7000, lengthFactor |-> 70,
     radiusFactor |-> 90, minRadius |-> 1000, branchAngle |-> 30,
     angleVariance |-> 0, lengthVariance |-> 10, leafSize |-> 5000]

Geoms == {GeomExample, GeomEditor, GeomThin, GeomShort}

Structured(g, d, n) == With(With(g, "maxDepth", d), "numBranches", n)

BaseConfigs ==
    {Structured(g, d, n) : g \in Geoms, d \in 0..MaxDepthHalves, n \in 0..MaxBranches}

\* the sets of fields left out of a configuration
OmitSets ==
    {{f} : f \in ModuleFields}
      \cup {ModuleFields, {"initialLength", "initialRadius"}, {"maxDepth", "numBranches"}}

OmitBases == {Structured(GeomEditor, 2, 2), Structured(GeomThin, 4, 1)}

\* maxDepth = 100, in halves
HundredLevels == 2 * 100

\* trunks from minRadius up to 10 * minRadius whose children get a tenth of
\* the radius and a tenth of the length, under maxDepth = 100
DeepConfigs ==
    {Structured(With(With(GeomThin, "lengthFactor", 10), "initialRadius", r),
                HundredLevels, n) :
        r \in {1000, 1500, 9999, 10000}, n \in 0..MaxBranches}

\* starting values that are zero or negative, supplied or defaulted from
\* a supplied initialLength
DegenerateConfigs ==
    LET c == Structured(GeomEditor, MaxDepthHalves, MaxBranches)
    IN  {With(c, "initialLength", v) : v \in {0, -100000}}
          \cup {With(c, "initialRadius", v) : v \in {0, -7000}}
          \cup {Omit(With(c, "initialLength", -100000), {"initialRadius"})}

\* minRadius = 0 with a trunk of radius 0
ZeroRadiusConfigs ==
    {Structured(With(With(GeomEditor, "minRadius", 0), "initialRadius", 0), 2, n) :
        n \in 0..MaxBranches}

Configs ==
    BaseConfigs \cup {Omit(c, S) : c \in OmitBases, S \in OmitSets}
      \cup DeepConfigs \cup DegenerateConfigs \cup ZeroRadiusConfigs

Args == {ObjectArg(c) : c \in Configs} \cup {NullArg, UndefinedArg}

\* the configuration with every absent field set to its documented default:
\* maxDepth 5, initialLength 10, initialRadius initialLength / 15, lengthFactor 0.7,
\* branchAngle 30, radiusFactor 0.6, minRadius 0.1, numBranches 2,
\* angleVariance 10, lengthVariance 10, leafSize 0.5
Filled(c) ==
    LET len == IF "initialLength" \in DOMAIN c THEN c["initialLength"] ELSE 100000
        d == [maxDepth |-> 10, initialLength |-> 100000, initialRadius |-> len \div 15,
              lengthFactor |-> 70, branchAngle |-> 30, radiusFactor |-> 60,
              minRadius |-> 1000, numBranches |-> 2, angleVariance |-> 10,
              lengthVariance |-> 10, leafSize |-> 5000]
    IN  [f \in (DOMAIN c) \cup ModuleFields |-> IF f \in DOMAIN c THEN c[f] ELSE d[f]]

\* the same configuration with a larger maxDepth
Deeper(c) ==
    IF "maxDepth" \in DOMAIN c
    THEN {With(c, "maxDepth", d) : d \in (c["maxDepth"] + 1)..MaxDepthHalves}
    ELSE {}

\* the arguments of the call that follows a call with argument arg
Follow(arg) ==
    IF arg.kind = "object"
    THEN {arg, ObjectArg(Filled(arg.fields)), NullArg}
           \cup {ObjectArg(c) : c \in Deeper(arg.fields)}
    ELSE {NullArg, UndefinedArg}

\* the values Math.random() returns, in 1/100
RandVals == {0, 50, 99}

Tapes == [1..TapeLen -> RandVals]

-----------------------------------------------------------------------------
(* The random source *)

\* the k-th next draw of Math.random(), k = 0, 1, ...
Rand(k) == rngTape[((rngPos + k) % Len(rngTape)) + 1]

Advance(n) == (rngPos + n) % Len(rngTape)

-----------------------------------------------------------------------------
(* State machine *)

\* a mesh variable that holds null (or nothing yet)
NoMesh == [kind |-> "null", count |-> 0, matrices |-> << >>]

\* the parameter loader has run no handler yet
NoEvent == [handler |-> "none", generated |-> FALSE, config |-> NullArg]

\* no file
NoFile == [name |-> "", text |-> [kind |-> "none"]]

NoPrev ==
    [valid |-> FALSE, config |-> NullArg, rngStart |-> 0, estimatedMax |-> 0,
     result |-> [branchMatrices |-> << >>, leafMatrices |-> << >>]]

\* the state after the scripts have loaded, the Regenerate button as one of
\* the given ones
InitState(buttons) ==
    /\ pc = "idle"
    /\ config = NullArg
    /\ estimatedMax = 0
    /\ branchMatrices = << >>
    /\ leafMatrices = << >>
    /\ stack = << >>
    /\ result = [branchMatrices |-> << >>, leafMatrices |-> << >>]
    /\ rngTape \in Tapes
    /\ rngPos = 0
    /\ rngStart = 0
    /\ prev = NoPrev
    /\ estCalls = 0
    /\ callLog = << >>
    /\ branchOrigin = << >>
    /\ leafOrigin = << >>
    /\ treeInstancedMesh = NoMesh
    /\ leafInstancedMesh = NoMesh
    /\ treeDataFile = NoFile
    /\ loaderPc = "idle"
    /\ loaderFile = NoFile
    /\ loadedBranchMesh = NoMesh
    /\ loadedLeafMesh = NoMesh
    /\ currentConfig = NullArg
    /\ regenerateButton \in buttons
    /\ generatedBranchMesh = NoMesh
    /\ generatedLeafMesh = NoMesh
    /\ readers = << >>
    /\ plEvent = NoEvent

\* the state after the scripts have loaded, the Regenerate button disabled
Init == InitState({[disabled |-> TRUE]})

\* what a new call of generateTreeMatrices remembers of the call before it
Remember ==
    IF pc = "done"
    THEN [valid |-> TRUE, config |-> config, rngStart |-> rngStart,
          estimatedMax |-> estimatedMax, result |-> result]
    ELSE prev

NextArgs == IF pc = "idle" THEN Args ELSE Follow(config)

\* arrays that outlive the call, as module-level arrays would
KeptArray(old) == old

\* new arrays of a generateTreeMatrices call
NewArray(old) == << >>

\* generateTreeMatrices(config) with !config: logs an error, returns two empty arrays
GenerateWithoutConfig ==
    /\ pc \in {"idle", "done"}
    /\ \E arg \in NextArgs :
         /\ NotConfig(arg)
         /\ config' = arg
    /\ prev' = Remember
    /\ pc' = "done"
    /\ result' = [branchMatrices |-> << >>, leafMatrices |-> << >>]
    /\ estCalls' = 0
    /\ callLog' = << >>
    /\ branchOrigin' = << >>
    /\ leafOrigin' = << >>
    /\ branchMatrices' = << >>
    /\ leafMatrices' = << >>
    /\ stack' = << >>
    /\ estimatedMax' = 0
    /\ rngStart' = rngPos
    /\ UNCHANGED <<rngTape, rngPos>>
    /\ UNCHANGED ioVars
    /\ UNCHANGED plVars

\* the activation record of a collectBranchDataRecursive call not yet entered
Frame(level, parentMatrix, length, radius) ==
    [id |-> 0, level |-> level, parentMatrix |-> parentMatrix, length |-> length,
     radius |-> radius, i |-> 0, entered |-> FALSE,
     \* instrumentation: the calling activation and the loop index it was called at
     parent |-> 0, index |-> 0]

\* generateTreeMatrices(config) past the !config check: estimates the budget and
\* makes the level-0 call; reading a field of null or undefined throws
GenerateStart ==
    /\ pc \in {"idle", "done"}
    /\ \E arg \in NextArgs :
         /\ ~NotConfig(arg)
         /\ config' = arg
         /\ IF arg.kind = "object"
            THEN /\ pc' = "running"
                 /\ estimatedMax' = estimatedMaxOf(arg.fields)
                 /\ estCalls' = 1
                 /\ stack' = << Frame(0, Identity, initialLengthOf(arg.fields),
                                      initialRadiusOf(arg.fields)) >>
            ELSE /\ pc' = "threw"
                 /\ estimatedMax' = 0
                 /\ estCalls' = 1
                 /\ stack' = << >>
    /\ prev' = Remember
    /\ branchMatrices' = NewArray(branchMatrices)
    /\ leafMatrices' = NewArray(leafMatrices)
    /\ result' = [branchMatrices |-> << >>, leafMatrices |-> << >>]
    /\ callLog' = << >>
    /\ branchOrigin' = << >>
    /\ leafOrigin' = << >>
    /\ rngStart' = rngPos
    /\ UNCHANGED <<rngTape, rngPos>>
    /\ UNCHANGED ioVars
    /\ UNCHANGED plVars

Top == stack[Len(stack)]

Pop == SubSeq(stack, 1, Len(stack) - 1)

ReplaceTop(f) == [stack EXCEPT ![Len(stack)] = f]

\* the record the instrumentation keeps of one call
LogEntry(f, terminal, limit, nBranch, nLeaf, nDraws) ==
    [level |-> f.level, length |-> f.length, radius |-> f.radius,
     parentMatrix |-> f.parentMatrix, parent |-> f.parent, index |-> f.index,
     terminal |-> terminal, limit |-> limit, nBranch |-> nBranch, nLeaf |-> nLeaf,
     nDraws |-> nDraws, nChildren |-> 0,
     \* the lengths of the two arrays when the call was entered
     branchBefore |-> Len(branchMatrices), leafBefore |-> Len(leafMatrices)]

\* a call that finds isTerminal || reachedLimit: adds two leaves when it is a
\* terminal segment above level 0 with room for them, and returns
EnterTerminal ==
    /\ pc = "running"
    /\ stack # << >>
    /\ ~Top.entered
    /\ LET c        == config.fields
           f        == Top
           terminal == isTerminal(c, f.level, f.length, f.radius)
           limit    == reachedLimit(Len(branchMatrices), Len(leafMatrices), estimatedMax)
           leaves   == isLeafSegment(terminal, f.level)
                         /\ canAddLeaves(Len(leafMatrices), estimatedMax)
           id       == Len(callLog) + 1
       IN  /\ terminal \/ limit
           /\ IF leaves
              THEN /\ leafMatrices' = leafMatrices \o
                        << leafMatrixBase(c, f.parentMatrix, Rand(0), Rand(1), Rand(2)),
                           leafMatrixTip(c, f.parentMatrix, f.length,
                                         Rand(3), Rand(4), Rand(5)) >>
                   /\ leafOrigin' = leafOrigin \o << id, id >>
                   /\ rngPos' = Advance(drawsOfLeaves(2))
                   /\ callLog' = Append(callLog, LogEntry(f, terminal, limit, 0, 2,
                                                          drawsOfLeaves(2)))
              ELSE /\ UNCHANGED <<leafMatrices, leafOrigin, rngPos>>
                   /\ callLog' = Append(callLog, LogEntry(f, terminal, limit, 0, 0, 0))
    /\ stack' = Pop
    /\ UNCHANGED <<pc, config, estimatedMax, branchMatrices, result, rngTape, rngStart,
                   prev, estCalls, branchOrigin>>
    /\ UNCHANGED ioVars
    /\ UNCHANGED plVars

\* a call that is neither terminal nor at the limit: pushes its branch matrix
\* and reaches the child loop
EnterBranch ==
    /\ pc = "running"
    /\ stack # << >>
    /\ ~Top.entered
    /\ LET c  == config.fields
           f  == Top
           id == Len(callLog) + 1
       IN  /\ ~isTerminal(c, f.level, f.length, f.radius)
           /\ ~reachedLimit(Len(branchMatrices), Len(leafMatrices), estimatedMax)
           /\ branchMatrices' =
                  Append(branchMatrices, worldMatrix(c, f.parentMatrix, f.length, f.radius))
           /\ branchOrigin' = Append(branchOrigin, id)
           /\ callLog' = Append(callLog, LogEntry(f, FALSE, FALSE, 1, 0, 0))
           /\ stack' = ReplaceTop([f EXCEPT !.entered = TRUE, !.id = id])
    /\ UNCHANGED <<pc, config, estimatedMax, leafMatrices, result, rngTape, rngPos,
                   rngStart, prev, estCalls, leafOrigin>>
    /\ UNCHANGED ioVars
    /\ UNCHANGED plVars

\* one iteration of the child loop that passes the limit check: three draws,
\* then the recursive call for child i
SpawnChild ==
    /\ pc = "running"
    /\ stack # << >>
    /\ Top.entered
    /\ LET c == config.fields
           f == Top
       IN  /\ f.i < numBranchesOf(c)
           /\ ~loopLimit(Len(branchMatrices), Len(leafMatrices), estimatedMax)
           /\ stack' = Append(ReplaceTop([f EXCEPT !.i = f.i + 1]),
                              [Frame(f.level + 1,
                                     nextParentMatrix(c, f.parentMatrix, f.length, f.i,
                                                      Rand(1), Rand(2)),
                                     nextLength(c, f.length, Rand(0)),
                                     nextRadius(c, f.radius))
                                  EXCEPT !.parent = f.id, !.index = f.i])
           /\ callLog' = [callLog EXCEPT ![f.id].nChildren = @ + 1,
                                         ![f.id].nDraws = @ + 3]
    /\ rngPos' = Advance(3)
    /\ UNCHANGED <<pc, config, estimatedMax, branchMatrices, leafMatrices, result,
                   rngTape, rngStart, prev, estCalls, branchOrigin, leafOrigin>>
    /\ UNCHANGED ioVars
    /\ UNCHANGED plVars

\* the child loop ends (i reaches numBranches, or the limit check breaks out of
\* it) and the call returns
ReturnFromLoop ==
    /\ pc = "running"
    /\ stack # << >>
    /\ Top.entered
    /\ \/ Top.i >= numBranchesOf(config.fields)
       \/ loopLimit(Len(branchMatrices), Len(leafMatrices), estimatedMax)
    /\ stack' = Pop
    /\ UNCHANGED <<pc, config, estimatedMax, branchMatrices, leafMatrices, result,
                   rngTape, rngPos, rngStart, prev, estCalls, callLog, branchOrigin,
                   leafOrigin>>
    /\ UNCHANGED ioVars
    /\ UNCHANGED plVars

\* the level-0 call has returned: generateTreeMatrices returns the two arrays
GenerateReturn ==
    /\ pc = "running"
    /\ stack = << >>
    /\ pc' = "done"
    /\ result' = [branchMatrices |-> branchMatrices, leafMatrices |-> leafMatrices]
    /\ UNCHANGED <<config, estimatedMax, branchMatrices, leafMatrices, stack, rngTape,
                   rngPos, rngStart, prev, estCalls, callLog, branchOrigin, leafOrigin>>
    /\ UNCHANGED ioVars
    /\ UNCHANGED plVars

\* the configurations collectBranchDataRecursive is studied on by itself
EngineConfigs ==
    {Structured(g, d, n) :
        g \in {GeomExample, GeomThin}, d \in 0..MaxDepthHalves, n \in 0..MaxBranches}

\* collectBranchDataRecursive(branchMatricesArray, leafMatricesArray, config,
\* estimatedMaxInstances, 0, identity, initialLength, initialRadius) on two
\* empty arrays: the budget is a parameter of the function, any number here
EngineCall ==
    /\ pc \in {"idle", "done"}
    /\ \E c \in EngineConfigs, budget \in 0..MaxBudget :
         /\ config' = ObjectArg(c)
         /\ estimatedMax' = budget
         /\ stack' = << Frame(0, Identity, initialLengthOf(c), initialRadiusOf(c)) >>
    /\ pc' = "running"
    /\ branchMatrices' = NewArray(branchMatrices)
    /\ leafMatrices' = NewArray(leafMatrices)
    /\ result' = [branchMatrices |-> << >>, leafMatrices |-> << >>]
    /\ callLog' = << >>
    /\ branchOrigin' = << >>
    /\ leafOrigin' = << >>
    /\ rngStart' = rngPos
    /\ estCalls' = 0
    /\ UNCHANGED <<rngTape, rngPos, prev>>
    /\ UNCHANGED ioVars
    /\ UNCHANGED plVars

Next ==
    \/ GenerateWithoutConfig
    \/ GenerateStart
    \/ EnterTerminal
    \/ EnterBranch
    \/ SpawnChild
    \/ ReturnFromLoop
    \/ GenerateReturn

Spec == Init /\ [][Next]_vars

\* the recursion by itself, under any budget
EngineNext ==
    \/ EngineCall
    \/ EnterTerminal
    \/ EnterBranch
    \/ SpawnChild
    \/ ReturnFromLoop
    \/ GenerateReturn

SpecEngine == Init /\ [][EngineNext]_vars

-----------------------------------------------------------------------------
(* The editor: estimateMaxInstances, generateTree, collectBranchData and
   saveFullTreeData.  generateTree runs inside one event handler and is one
   step; its recursion is computed on the pair of arrays and the position of
   the random stream. *)

\* the k-th draw of Math.random() from position pos on
RandAt(pos, k) == rngTape[((pos + k) % Len(rngTape)) + 1]

\* estimateMaxInstances(): Math.ceil(count * config.maxInstanceEstimateFactor * 1.5)
editorEstimateMaxInstances(c) ==
    LET count == SumPowers(c["numBranches"], c["maxDepth"] \div 2)
    IN  CeilDiv(count * c["maxInstanceEstimateFactor"] * 3, 100 * 2)

\* level >= config.maxDepth || length <= 0.01 || radius < config.minRadius
editorIsTerminal(c, level, length, radius) ==
    \/ 2 * level >= c["maxDepth"]
    \/ length <= MinSegmentLength
    \/ radius < c["minRadius"]

\* the check at the head of the editor's child loop
editorLoopLimit(nBranch, est) == nBranch >= est

RECURSIVE collectBranchData(_, _, _, _, _, _, _)
RECURSIVE collectChildren(_, _, _, _, _, _, _, _)

\* collectBranchData(matricesArray, leafMatricesArray, level, parentMatrix,
\* length, radius); acc holds the two arrays and the position of the random
\* stream, the value is acc after the call
collectBranchData(c, est, acc, level, parentMatrix, length, radius) ==
    LET terminal == editorIsTerminal(c, level, length, radius)
        limit    == reachedLimit(Len(acc.branch), Len(acc.leaf), est)
    IN  IF terminal \/ limit
        THEN IF terminal /\ level > 0 /\ canAddLeaves(Len(acc.leaf), est)
             THEN [branch |-> acc.branch,
                   leaf   |-> acc.leaf \o
                       << leafMatrixBase(c, parentMatrix, RandAt(acc.pos, 0),
                                         RandAt(acc.pos, 1), RandAt(acc.pos, 2)),
                          leafMatrixTip(c, parentMatrix, length, RandAt(acc.pos, 3),
                                        RandAt(acc.pos, 4), RandAt(acc.pos, 5)) >>,
                   pos    |-> (acc.pos + 6) % Len(rngTape)]
             ELSE acc
        ELSE collectChildren(c, est,
                 [acc EXCEPT !.branch =
                      Append(@, worldMatrix(c, parentMatrix, length, radius))],
                 level, parentMatrix, length, radius, 0)

\* the child loop from iteration i on
collectChildren(c, est, acc, level, parentMatrix, length, radius, i) ==
    IF i >= c["numBranches"] \/ editorLoopLimit(Len(acc.branch), est)
    THEN acc
    ELSE LET child ==
                 collectBranchData(c, est,
                     [acc EXCEPT !.pos = (@ + 3) % Len(rngTape)],
                     level + 1,
                     nextParentMatrix(c, parentMatrix, length, i,
                                      RandAt(acc.pos, 1), RandAt(acc.pos, 2)),
                     nextLength(c, length, RandAt(acc.pos, 0)),
                     nextRadius(c, radius))
         IN  collectChildren(c, est, child, level, parentMatrix, length, radius, i + 1)

\* new THREE.InstancedMesh(...), count set, setMatrixAt(i, matrices[i]) for
\* i < count
InstancedMesh(matrices, count) ==
    [kind |-> "mesh", count |-> count, matrices |-> SubSeq(matrices, 1, count)]

\* what the sliders can set: the editor's configuration object with maxDepth
\* and numBranches varied, and one with a trunk thinner than minRadius
EditorConfigs ==
    {With(Structured(GeomEditor, d, n), "maxInstanceEstimateFactor", 150) :
        d \in 2..MaxDepthHalves, n \in 1..MaxBranches}
      \cup {With(Structured(With(GeomEditor, "initialRadius", 500),
                            MaxDepthHalves, MaxBranches),
                 "maxInstanceEstimateFactor", 150)}

\* generateTree(): resets the two arrays, estimates, collects the matrices and
\* fills the two meshes
GenerateTree ==
    /\ pc \in {"idle", "shown"}
    /\ \E c \in EditorConfigs :
         \E est \in {editorEstimateMaxInstances(c)} :
         \E out \in {collectBranchData(c, est,
                        [branch |-> << >>, leaf |-> << >>, pos |-> rngPos],
                        0, Identity, c["initialLength"], c["initialRadius"])} :
             /\ config' = ObjectArg(c)
             /\ estimatedMax' = est
             /\ branchMatrices' = out.branch
             /\ leafMatrices' = out.leaf
             /\ rngPos' = out.pos
             /\ treeInstancedMesh' =
                    InstancedMesh(out.branch, Min(Len(out.branch), est))
             /\ leafInstancedMesh' =
                    InstancedMesh(out.leaf, Min(Len(out.leaf), est))
    /\ pc' = "shown"
    /\ rngStart' = rngPos
    /\ UNCHANGED <<stack, result, rngTape, prev, estCalls, callLog,
                   branchOrigin, leafOrigin, treeDataFile, loaderPc, loaderFile,
                   loadedBranchMesh, loadedLeafMesh>>
    /\ UNCHANGED plVars

\* Matrix4.toArray(): the 16 elements of the matrix
toArray(m) == [elements |-> m]

\* Matrix4.fromArray(array)
fromArray(a) == a.elements

\* array.slice(0, n)
slice(array, n) == SubSeq(array, 1, Min(n, Len(array)))

\* JSON.stringify of an object of arrays of finite numbers and strings
JSONstringify(v) == [kind |-> "json", value |-> v]

\* JSON.parse: the value, or a SyntaxError; type tells an object from the
\* JSON texts null and 5, whose value has no field
JSONparse(text) ==
    IF text.kind = "json"
    THEN [ok |-> TRUE, value |-> text.value, type |-> "object"]
    ELSE IF text.kind \in {"null", "number"}
    THEN [ok |-> TRUE, value |-> [f \in {} |-> 0], type |-> text.kind]
    ELSE [ok |-> FALSE, value |-> << >>, type |-> "undefined"]

\* saveFullTreeData(): the arrays are always there (an empty array is truthy),
\* so the displayed instances are serialized with four fields of the
\* configuration and downloaded as tree_data.json
SaveFullTreeData ==
    /\ pc = "shown"
    /\ LET serializableBranchMatrices ==
               [i \in 1..Len(slice(branchMatrices, treeInstancedMesh.count)) |->
                   toArray(branchMatrices[i])]
           serializableLeafMatrices ==
               [i \in 1..Len(slice(leafMatrices, leafInstancedMesh.count)) |->
                   toArray(leafMatrices[i])]
           treeData ==
               [config |-> [taperFactor |-> config.fields["taperFactor"],
                            leafSize |-> config.fields["leafSize"],
                            branchColor |-> "5c4033", leafColor |-> "228b22"],
                branchMatrices |-> serializableBranchMatrices,
                leafMatrices |-> serializableLeafMatrices]
       IN  treeDataFile' = [name |-> "tree_data.json", text |-> JSONstringify(treeData)]
    /\ UNCHANGED <<pc, config, estimatedMax, branchMatrices, leafMatrices, stack, result,
                   rngTape, rngPos, rngStart, prev, estCalls, callLog, branchOrigin,
                   leafOrigin, treeInstancedMesh, leafInstancedMesh, loaderPc,
                   loaderFile, loadedBranchMesh, loadedLeafMesh>>
    /\ UNCHANGED plVars

-----------------------------------------------------------------------------
(* The tree loader: handleFileLoad, reader.onload and displayLoadedTree *)

\* files the user may pick that the editor's save did not write: a text that
\* is not JSON, and a tree_params.json as saveTreeParams writes it
ForeignFiles ==
    {[name |-> "notes.txt", text |-> [kind |-> "text"]],
     [name |-> "tree_params.json",
      text |-> JSONstringify([maxDepth |-> 5, numBranches |-> 2])]}

\* treeData && treeData.config && treeData.branchMatrices && treeData.leafMatrices:
\* objects and arrays, empty ones too, are truthy
validTreeData(v) == {"config", "branchMatrices", "leafMatrices"} \subseteq DOMAIN v

\* an instance left as the constructor made it
ZeroMatrix == << [op |-> "zero", x |-> 0, y |-> 0, z |-> 0] >>

\* the copy loop stopping one short
loadedInstancesOneShort(data) ==
    [kind |-> "mesh", count |-> Len(data),
     matrices |-> [i \in 1..Len(data) |->
                      IF i < Len(data) THEN fromArray(data[i]) ELSE ZeroMatrix]]

\* new THREE.InstancedMesh(geometry, material, count) and, for i < count,
\* tempMatrix.fromArray(data[i]); setMatrixAt(i, tempMatrix)
loadedInstances(data) ==
    [kind |-> "mesh", count |-> Len(data),
     matrices |-> [i \in 1..Len(data) |-> fromArray(data[i])]]

\* handleFileLoad: a file was picked and is handed to a FileReader
HandleFileLoad ==
    /\ loaderPc # "reading"
    /\ \E f \in ({treeDataFile} \ {NoFile}) \cup ForeignFiles : loaderFile' = f
    /\ loaderPc' = "reading"
    /\ UNCHANGED <<pc, config, estimatedMax, branchMatrices, leafMatrices, stack, result,
                   rngTape, rngPos, rngStart, prev, estCalls, callLog, branchOrigin,
                   leafOrigin, treeInstancedMesh, leafInstancedMesh, treeDataFile,
                   loadedBranchMesh, loadedLeafMesh>>
    /\ UNCHANGED plVars

\* reader.onload: parse, validate, displayLoadedTree (which clears the old
\* meshes and shows nothing when there is no branch)
ReaderOnLoad ==
    /\ loaderPc = "reading"
    /\ LET parsed == JSONparse(loaderFile.text)
       IN  IF ~parsed.ok
           THEN /\ loaderPc' = "failed"
                /\ UNCHANGED <<loadedBranchMesh, loadedLeafMesh>>
           ELSE IF ~validTreeData(parsed.value)
           THEN /\ loaderPc' = "invalid"
                /\ UNCHANGED <<loadedBranchMesh, loadedLeafMesh>>
           ELSE LET branchMatricesData == parsed.value.branchMatrices
                    leafMatricesData   == parsed.value.leafMatrices
                IN  /\ loaderPc' = "displayed"
                    /\ IF Len(branchMatricesData) = 0
                       THEN /\ loadedBranchMesh' = NoMesh
                            /\ loadedLeafMesh' = NoMesh
                       ELSE /\ loadedBranchMesh' = loadedInstances(branchMatricesData)
                            /\ loadedLeafMesh' =
                                   IF Len(leafMatricesData) > 0
                                   THEN loadedInstances(leafMatricesData)
                                   ELSE NoMesh
    /\ UNCHANGED <<pc, config, estimatedMax, branchMatrices, leafMatrices, stack, result,
                   rngTape, rngPos, rngStart, prev, estCalls, callLog, branchOrigin,
                   leafOrigin, treeInstancedMesh, leafInstancedMesh, treeDataFile,
                   loaderFile>>
    /\ UNCHANGED plVars

\* the editor and the tree loader, with the saved file between them
SaveLoadNext ==
    \/ GenerateTree
    \/ SaveFullTreeData
    \/ HandleFileLoad
    \/ ReaderOnLoad

\* one random stream is enough here: a first draw of 0, then 0.99
InitSaveLoad ==
    /\ Init
    /\ rngTape[1] = 0
    /\ \A k \in 2..Len(rngTape) : rngTape[k] = 99

SpecSaveLoad == InitSaveLoad /\ [][SaveLoadNext]_vars

-----------------------------------------------------------------------------
(* Properties *)

IsObject == config.kind = "object"

Calls == 1..Len(callLog)

\* C1: at every point of a generateTreeMatrices call, and in its result, the
\* number of branch matrices and the number of leaf matrices are each at most
\* estimateMaxInstances(config).
C1_CardinalityBound ==
    (IsObject /\ pc \in {"running", "done"}) =>
        /\ Len(branchMatrices) <= estimateMaxInstances(config.fields)
        /\ Len(leafMatrices) <= estimateMaxInstances(config.fields)
        /\ Len(result.branchMatrices) <= estimateMaxInstances(config.fields)
        /\ Len(result.leafMatrices) <= estimateMaxInstances(config.fields)

\* a finished call in which the leaf budget was used up and children were dropped
C1_Witness ==
    /\ pc = "done"
    /\ IsObject
    /\ Len(result.branchMatrices) > 0
    /\ Len(result.leafMatrices) >= estimateMaxInstances(config.fields) - 1
    /\ \E k \in Calls :
         callLog[k].nBranch = 1 /\ callLog[k].nChildren < numBranchesOf(config.fields)

\* the depth-1 example: maxDepth 1, numBranches 2, initialLength 10,
\* initialRadius 0.7, lengthFactor 0.7, radiusFactor 0.6, minRadius 0.1,
\* branchAngle 30, angleVariance 0, lengthVariance 0
DepthOneExample == ObjectArg(Structured(GeomExample, 2, 2))

\* C2 as stated: the depth-1 example returns exactly 3 branch matrices and
\* exactly 4 leaf matrices.
C2_AsStated ==
    (pc = "done" /\ config = DepthOneExample) =>
        /\ Len(result.branchMatrices) = 3
        /\ Len(result.leafMatrices) = 4

\* C2 amended: the depth-1 example returns exactly 1 branch matrix (the root,
\* level 0) and exactly 4 leaf matrices, 2 from each of the 2 level-1 calls,
\* which are terminal and push no branch matrix.
C2_DepthOneExample ==
    (pc = "done" /\ config = DepthOneExample) =>
        /\ Len(result.branchMatrices) = 1
        /\ Len(result.leafMatrices) = 4
        /\ Len(callLog) = 3
        /\ callLog[1].level = 0 /\ callLog[1].nBranch = 1 /\ callLog[1].nLeaf = 0
        /\ \A k \in 2..3 :
             callLog[k].level = 1 /\ callLog[k].nBranch = 0 /\ callLog[k].nLeaf = 2

C2_Witness == pc = "done" /\ config = DepthOneExample /\ Len(callLog) = 3

\* C3: generateTreeMatrices with an absent or null config does not throw,
\* returns two empty arrays, and calls neither the estimator nor the recursion.
C3_NoConfigReturnsEmpty ==
    (~IsObject /\ pc # "idle") =>
        /\ pc = "done"
        /\ result = [branchMatrices |-> << >>, leafMatrices |-> << >>]
        /\ estCalls = 0
        /\ callLog = << >>
        /\ stack = << >>

\* a call with null right after a call that returned a tree
C3_Witness ==
    /\ pc = "done"
    /\ config = NullArg
    /\ prev.valid
    /\ Len(prev.result.branchMatrices) > 0

\* C4: no leaf matrix is pushed by the level-0 call: every leaf matrix was
\* pushed by a call with level >= 1.
C4_RootHasNoLeaves ==
    /\ Len(leafOrigin) = Len(leafMatrices)
    /\ \A j \in 1..Len(leafMatrices) : callLog[leafOrigin[j]].level >= 1
    /\ \A k \in Calls : callLog[k].level = 0 => callLog[k].nLeaf = 0

\* a finished call with leaves, right after a call whose level-0 call was
\* terminal and returned nothing
C4_Witness ==
    /\ pc = "done"
    /\ IsObject
    /\ Len(result.leafMatrices) > 0
    /\ prev.valid
    /\ prev.config.kind = "object"
    /\ prev.result = [branchMatrices |-> << >>, leafMatrices |-> << >>]

\* the three conditions of C5 on the arguments a call was made with
C5_MayBranch(e) ==
    /\ 2 * e.level < maxDepthOf(config.fields)
    /\ e.length > 100
    /\ e.radius >= minRadiusOf(config.fields)

\* C5: every branch matrix was pushed by a call with level < maxDepth,
\* length > 0.01 and radius >= minRadius; a call that violates one of the three
\* pushes no branch matrix and makes no recursive call.
C5_BranchOnlyWhenNotTerminal ==
    /\ Len(branchOrigin) = Len(branchMatrices)
    /\ \A j \in 1..Len(branchMatrices) :
         callLog[branchOrigin[j]].nBranch = 1 /\ C5_MayBranch(callLog[branchOrigin[j]])
    /\ \A k \in Calls :
         ~C5_MayBranch(callLog[k]) =>
             /\ callLog[k].nBranch = 0
             /\ callLog[k].nChildren = 0
             /\ \A j \in 1..Len(branchOrigin) : branchOrigin[j] # k

\* a finished call with a branch, a call stopped by length alone and a call
\* stopped by depth alone
C5_Witness ==
    /\ pc = "done"
    /\ Len(result.branchMatrices) > 0
    /\ \E k \in Calls :
         /\ callLog[k].length <= 100
         /\ 2 * callLog[k].level < maxDepthOf(config.fields)
         /\ callLog[k].radius >= minRadiusOf(config.fields)
         /\ callLog[k].nLeaf = 2

\* sum of b^i for i = 0 .. d, in closed form, clamped as the counts are
GeometricSum(b, d) ==
    IF b = 1 THEN d + 1
    ELSE IF Pow(b, d + 1) >= Huge THEN Huge
    ELSE (Pow(b, d + 1) - 1) \div (b - 1)

\* the configuration supplies field f with an integer value >= lo (maxDepth is
\* counted in halves)
Supplies(c, f, lo) ==
    /\ f \in DOMAIN c
    /\ IF f = "maxDepth" THEN c[f] % 2 = 0 /\ c[f] >= 2 * lo ELSE c[f] >= lo

\* C6 as stated: when the configuration supplies integer maxDepth >= 0 and
\* integer numBranches >= 1, estimateMaxInstances returns
\* ceil(2.25 * sum of numBranches^i for i = 0 .. maxDepth); for numBranches = 1
\* that is ceil(2.25 * (maxDepth + 1)).
C6_AsStated ==
    ( /\ IsObject
      /\ pc \in {"running", "done"}
      /\ Supplies(config.fields, "maxDepth", 0)
      /\ Supplies(config.fields, "numBranches", 1) ) =>
        /\ estimatedMax =
             CeilDiv(9 * GeometricSum(config.fields["numBranches"],
                                      config.fields["maxDepth"] \div 2), 4)
        /\ config.fields["numBranches"] = 1 =>
             estimatedMax = CeilDiv(9 * ((config.fields["maxDepth"] \div 2) + 1), 4)

\* C7 as stated: for two calls with the same integer numBranches >= 1 and
\* integer depths d1 <= d2, the estimate for d1 is at most the estimate for d2.
C7_AsStated ==
    ( /\ prev.valid
      /\ prev.config.kind = "object"
      /\ IsObject
      /\ pc \in {"running", "done"}
      /\ Supplies(prev.config.fields, "maxDepth", 0)
      /\ Supplies(config.fields, "maxDepth", 0)
      /\ Supplies(config.fields, "numBranches", 1)
      /\ Supplies(prev.config.fields, "numBranches", 1)
      /\ prev.config.fields["numBranches"] = config.fields["numBranches"]
      /\ prev.config.fields["maxDepth"] <= config.fields["maxDepth"] ) =>
        prev.estimatedMax <= estimatedMax

\* the current call had the previous call's configuration with the absent
\* fields filled in with the documented defaults, and the same random draws
C8_FilledRerun ==
    /\ prev.valid
    /\ prev.config.kind = "object"
    /\ IsObject
    /\ pc = "done"
    /\ config.fields = Filled(prev.config.fields)
    /\ rngStart = prev.rngStart

\* C8: a configuration with fields omitted yields the same budget and the same
\* branch and leaf sequences, for the same random draws, as the configuration
\* with those fields set to the documented defaults.
C8_DefaultsEquivalence ==
    C8_FilledRerun =>
        /\ estimatedMax = prev.estimatedMax
        /\ result = prev.result

\* such a pair of calls where fields were in fact omitted and a tree came out
C8_Witness ==
    /\ C8_FilledRerun
    /\ DOMAIN config.fields # DOMAIN prev.config.fields
    /\ Len(result.branchMatrices) > 1
    /\ Len(result.leafMatrices) > 0
    /\ rngTape[1] # 50

\* every draw of the random source returns the same value
Pinned == \A i, j \in 1..Len(rngTape) : rngTape[i] = rngTape[j]

\* two completed calls on the same configuration with zero variance and a
\* pinned random source
C9_PinnedRerun ==
    /\ prev.valid
    /\ IsObject
    /\ pc = "done"
    /\ config = prev.config
    /\ angleVarianceOf(config.fields) = 0
    /\ lengthVarianceOf(config.fields) = 0
    /\ Pinned

\* C9: with angleVariance = 0, lengthVariance = 0 and a pinned random source,
\* two runs on the same configuration return identical branch sequences.
C9_PinnedDeterminism ==
    C9_PinnedRerun => result.branchMatrices = prev.result.branchMatrices

C9_Witness == C9_PinnedRerun /\ Len(result.branchMatrices) >= 3

\* lengthFactor < 1, radiusFactor < 1, no variance
C10_Shrinking ==
    /\ IsObject
    /\ pc = "running"
    /\ lengthFactorOf(config.fields) < 100
    /\ radiusFactorOf(config.fields) < 100
    /\ lengthVarianceOf(config.fields) = 0
    /\ angleVarianceOf(config.fields) = 0

\* C10: with lengthFactor < 1, radiusFactor < 1 and zero variance, every
\* recursive call receives a length and a radius strictly less than those of
\* the call that makes it.
C10_TaperMonotone ==
    C10_Shrinking =>
        \A k \in 2..Len(stack) :
            /\ stack[k].length < stack[k - 1].length
            /\ stack[k].radius < stack[k - 1].radius

\* a call two levels below the root under those conditions
C10_Witness == C10_Shrinking /\ Len(stack) >= 3

-----------------------------------------------------------------------------
(* Termination by radius and by depth *)

\* maxDepth = 100, minRadius <= initialRadius < 10 * minRadius, radiusFactor = 0.1
C11_ThinTrunk ==
    /\ IsObject
    /\ pc \in {"running", "done"}
    /\ "maxDepth" \in DOMAIN config.fields
    /\ config.fields["maxDepth"] = HundredLevels
    /\ minRadiusOf(config.fields) <= initialRadiusOf(config.fields)
    /\ initialRadiusOf(config.fields) < 10 * minRadiusOf(config.fields)
    /\ radiusFactorOf(config.fields) = 10

\* C11: with maxDepth = 100, minRadius <= initialRadius < 10 * minRadius and
\* radiusFactor = 0.1, no call of the recursion has a level above 1 and no
\* branch is pushed at level 1 or deeper.
C11_StopsWithinTwoLevels ==
    C11_ThinTrunk =>
        /\ \A k \in 1..Len(stack) : stack[k].level <= 1
        /\ \A k \in 1..Len(callLog) :
              /\ callLog[k].level <= 1
              /\ callLog[k].level >= 1 => callLog[k].nBranch = 0
        /\ \A k \in 1..Len(branchOrigin) : callLog[branchOrigin[k]].level = 0

\* such a call has returned the trunk and the leaves of two level-1 calls
C11_Witness ==
    /\ C11_ThinTrunk
    /\ pc = "done"
    /\ Len(result.branchMatrices) = 1
    /\ Len(result.leafMatrices) = 4
    /\ \E k \in 1..Len(callLog) : callLog[k].level = 1 /\ callLog[k].terminal

\* the steps of a generateTreeMatrices call under way: the call is synchronous
\* and runs to its return
RunningStep ==
    EnterTerminal \/ EnterBranch \/ SpawnChild \/ ReturnFromLoop \/ GenerateReturn

\* a call that has started keeps running
FairSpec == Spec /\ WF_vars(RunningStep)

\* maxDepth an integer >= 0 and numBranches an integer >= 0
C12_IntegerConfig ==
    /\ IsObject
    /\ pc \in {"running", "done"}
    /\ maxDepthOf(config.fields) >= 0
    /\ maxDepthOf(config.fields) % 2 = 0
    /\ numBranchesOf(config.fields) >= 0

\* no call has a level above maxDepth; at most maxDepth + 1 calls are nested
C12_DepthBounded ==
    C12_IntegerConfig =>
        /\ \A k \in 1..Len(stack) : 2 * stack[k].level <= maxDepthOf(config.fields)
        /\ \A k \in 1..Len(callLog) : 2 * callLog[k].level <= maxDepthOf(config.fields)
        /\ 2 * Len(stack) <= maxDepthOf(config.fields) + 2

\* C12: for integer maxDepth >= 0 and integer numBranches >= 0,
\* generateTreeMatrices terminates, no call of the recursion has a level above
\* maxDepth, and at most maxDepth + 1 calls are nested.
C12_TerminatesWithinDepth ==
    /\ []C12_DepthBounded
    /\ (C12_IntegerConfig /\ pc = "running") ~> (pc = "done")

\* a call with maxDepth = 2 has returned after a call at level 2
C12_Witness ==
    /\ C12_IntegerConfig
    /\ pc = "done"
    /\ maxDepthOf(config.fields) = 4
    /\ \E k \in 1..Len(callLog) : callLog[k].level = 2

-----------------------------------------------------------------------------
(* Degenerate inputs *)

\* the configuration supplies initialLength <= 0 or initialRadius <= 0, and
\* minRadius > 0
C13_Degenerate ==
    /\ IsObject
    /\ pc # "idle"
    /\ \/ "initialLength" \in DOMAIN config.fields /\ config.fields["initialLength"] <= 0
       \/ "initialRadius" \in DOMAIN config.fields /\ config.fields["initialRadius"] <= 0
    /\ minRadiusOf(config.fields) > 0

\* C13: when the configuration supplies initialLength <= 0 or
\* initialRadius <= 0, with minRadius > 0, generateTreeMatrices does not throw;
\* its only call of the recursion is the level-0 call, which is terminal and
\* makes no recursive call, and both returned sequences are empty.
C13_DegenerateReturnsEmpty ==
    C13_Degenerate =>
        /\ pc \in {"running", "done"}
        /\ Len(callLog) <= 1
        /\ \A k \in 1..Len(stack) : stack[k].level = 0
        /\ \A k \in 1..Len(callLog) :
              /\ callLog[k].level = 0
              /\ callLog[k].terminal
              /\ callLog[k].nChildren = 0
        /\ branchMatrices = << >>
        /\ leafMatrices = << >>
        /\ pc = "done" =>
              /\ Len(callLog) = 1
              /\ result = [branchMatrices |-> << >>, leafMatrices |-> << >>]

\* such a call, with a negative initialLength, has returned
C13_Witness ==
    /\ C13_Degenerate
    /\ pc = "done"
    /\ initialLengthOf(config.fields) < 0
    /\ Len(callLog) = 1

\* numBranches = 0 is supplied and the root is not terminal
C14_NoChildren ==
    /\ IsObject
    /\ pc = "done"
    /\ "numBranches" \in DOMAIN config.fields
    /\ config.fields["numBranches"] = 0
    /\ ~isTerminal(config.fields, 0, initialLengthOf(config.fields),
                   initialRadiusOf(config.fields))

\* C14 as stated: with numBranches = 0 and a non-terminal root,
\* generateTreeMatrices returns exactly one branch matrix and no leaf matrix,
\* and the estimator and the recursion both count 0 children per node (so the
\* estimate is Math.ceil(2.25 * 1), the only non-zero power being 0^0).
C14_AsStated ==
    C14_NoChildren =>
        /\ Len(result.branchMatrices) = 1
        /\ Len(result.leafMatrices) = 0
        /\ Len(callLog) = 1
        /\ callLog[1].nChildren = 0
        /\ estimatedMax =
              CeilDiv(9 * SumPowers(0, OrElse(config.fields, "maxDepth",
                                             2 * EstimateDefaultDepth) \div 2), 4)

-----------------------------------------------------------------------------
(* Frame of a call *)

\* the two arrays of the call hold exactly what the call has pushed, and the
\* returned object holds exactly those arrays
C15_OnlyOwnTransforms ==
    /\ Len(branchMatrices) = Len(branchOrigin)
    /\ Len(leafMatrices) = Len(leafOrigin)
    /\ (IsObject /\ pc = "running") =>
          /\ \A k \in 1..Len(branchOrigin) : branchOrigin[k] \in Calls
          /\ \A k \in 1..Len(leafOrigin) : leafOrigin[k] \in Calls
    /\ (IsObject /\ pc = "done") =>
          result = [branchMatrices |-> branchMatrices, leafMatrices |-> leafMatrices]

\* a step of a call under way leaves the configuration and what the earlier
\* call got and returned alone; the step that starts a call begins with two
\* empty arrays and leaves the earlier call's argument and result as they were
C15_FrameStep ==
    /\ pc = "running" => (config' = config /\ prev' = prev)
    /\ (pc = "done" /\ pc' # "done") =>
          /\ branchMatrices' = << >>
          /\ leafMatrices' = << >>
          /\ prev'.valid
          /\ prev'.config = config
          /\ prev'.result = result

\* C15: across any sequence of generateTreeMatrices calls, each call returns
\* two freshly created sequences holding only the transforms appended during
\* that call, and no call modifies its configuration or the sequences returned
\* by earlier calls.
C15_FreshSequences == []C15_OnlyOwnTransforms /\ [][C15_FrameStep]_vars

\* a call has returned a tree right after a call on the same configuration
\* that returned a tree of the same size with other matrices
C15_Witness ==
    /\ IsObject
    /\ pc = "done"
    /\ prev.valid
    /\ prev.config = config
    /\ Len(result.branchMatrices) >= 3
    /\ Len(result.branchMatrices) = Len(prev.result.branchMatrices)
    /\ result.branchMatrices # prev.result.branchMatrices

-----------------------------------------------------------------------------
(* Scale of a branch *)

\* the scale a branch matrix was built from: the last factor of its product
ScaleOf(m) == m[Len(m)]

\* C17: when minRadius > 0, every branch matrix is built from the scale
\* (2 * actualRadius, length, 2 * actualRadius) of the call that pushed it, and
\* the three components are strictly positive.
C17_PositiveScale ==
    (IsObject /\ pc \in {"running", "done"} /\ minRadiusOf(config.fields) > 0) =>
        \A k \in 1..Len(branchMatrices) :
            LET s == ScaleOf(branchMatrices[k])
                e == callLog[branchOrigin[k]]
            IN  /\ s.op = "scale"
                /\ s.x = 2 * actualRadius(config.fields, e.radius)
                /\ s.y = e.length
                /\ s.z = 2 * actualRadius(config.fields, e.radius)
                /\ s.x > 0 /\ s.y > 0 /\ s.z > 0

\* a returned tree of at least three branches of different lengths
C17_Witness ==
    /\ IsObject
    /\ pc = "done"
    /\ minRadiusOf(config.fields) > 0
    /\ Len(result.branchMatrices) >= 3
    /\ ScaleOf(result.branchMatrices[1]).y > ScaleOf(result.branchMatrices[2]).y
    /\ ScaleOf(result.branchMatrices[2]).y > 0

-----------------------------------------------------------------------------
(* One call of the recursion under a budget *)

\* isTerminal of the call recorded as e: level >= maxDepth, length <= 0.01 or
\* radius < minRadius
TerminalCall(e) ==
    \/ 2 * e.level >= maxDepthOf(config.fields)
    \/ e.length <= 100
    \/ e.radius < minRadiusOf(config.fields)

\* limitReached when the call recorded as e was entered
LimitedCall(e) ==
    \/ e.branchBefore >= estimatedMax
    \/ e.leafBefore >= estimatedMax - 1

\* the matrices call k has pushed
BranchesOf(k) == {j \in 1..Len(branchOrigin) : branchOrigin[j] = k}
LeavesOf(k) == {j \in 1..Len(leafOrigin) : leafOrigin[j] = k}

\* C18: each call of the recursion appends no leaf matrix or exactly two, and
\* two exactly when it is terminal, its level is above 0 and fewer than
\* budget - 1 leaf matrices existed when it was entered.
C18_ZeroOrTwoLeaves ==
    (IsObject /\ pc \in {"running", "done"}) =>
        \A k \in Calls :
            /\ Cardinality(LeavesOf(k)) \in {0, 2}
            /\ Cardinality(LeavesOf(k)) = callLog[k].nLeaf
            /\ Cardinality(LeavesOf(k)) = 2 <=>
                  /\ TerminalCall(callLog[k])
                  /\ callLog[k].level > 0
                  /\ callLog[k].leafBefore < estimatedMax - 1

\* a terminal call has pushed the last two leaves the budget has room for,
\* and the level-0 call has dropped its remaining children
C18_Witness ==
    /\ IsObject
    /\ pc = "done"
    /\ \E k \in Calls :
          /\ Cardinality(LeavesOf(k)) = 2
          /\ callLog[k].leafBefore = estimatedMax - 3
    /\ callLog[1].nChildren < numBranchesOf(config.fields)

\* C19: a call that finds isTerminal or limitReached appends no branch matrix
\* and makes no recursive call; a terminal call that pushes leaves pushes no
\* branch matrix, and a call stopped by limitReached alone pushes nothing.
C19_StoppedCallAddsNoBranch ==
    (IsObject /\ pc \in {"running", "done"}) =>
        \A k \in Calls :
            /\ (TerminalCall(callLog[k]) \/ LimitedCall(callLog[k])) =>
                  /\ BranchesOf(k) = {}
                  /\ callLog[k].nBranch = 0
                  /\ callLog[k].nChildren = 0
                  /\ \A j \in 1..Len(stack) : stack[j].id # k
            /\ LeavesOf(k) # {} => BranchesOf(k) = {}
            /\ (LimitedCall(callLog[k]) /\ ~TerminalCall(callLog[k])) =>
                  BranchesOf(k) = {} /\ LeavesOf(k) = {}

\* the level-0 call of a tree that could grow was stopped by a budget of 1
C19_Witness ==
    /\ IsObject
    /\ pc = "done"
    /\ estimatedMax = 1
    /\ Len(callLog) = 1
    /\ ~TerminalCall(callLog[1])
    /\ LimitedCall(callLog[1])
    /\ numBranchesOf(config.fields) >= 1

\* at the head of the child loop with the branch budget used up, the step
\* taken is the return of the call: no recursive call, nothing appended,
\* the generation goes on
C20_LoopStep ==
    (/\ pc = "running"
     /\ stack # << >>
     /\ Top.entered
     /\ Len(branchMatrices) >= estimatedMax) =>
        /\ stack' = Pop
        /\ branchMatrices' = branchMatrices
        /\ leafMatrices' = leafMatrices
        /\ callLog' = callLog
        /\ pc' = "running"

\* C20: in the child loop of a non-terminal call, once the number of branch
\* matrices has reached the budget the loop ends before the next recursive
\* call; the remaining children are dropped, nothing is appended for them and
\* no error is raised.
C20_LoopAbortsAtBudget == [][C20_LoopStep]_vars

\* a tree of two children per node has returned with the budget of branch
\* matrices used up, room for leaves left, and the root's second child dropped
C20_Witness ==
    /\ IsObject
    /\ pc = "done"
    /\ numBranchesOf(config.fields) = 2
    /\ Len(result.branchMatrices) = estimatedMax
    /\ Len(result.leafMatrices) < estimatedMax - 1
    /\ callLog[1].nChildren = 1

-----------------------------------------------------------------------------
(* Save and load *)

\* the instances a mesh variable displays: none when it holds null
Displayed(mesh) == IF mesh.kind = "mesh" THEN mesh.matrices ELSE << >>

\* a save writes a file that passes the loader's validation and holds, in
\* order, the 16 numbers of every matrix the editor has generated and shows
C16_SaveStep ==
    treeDataFile' # treeDataFile =>
        LET parsed == JSONparse(treeDataFile'.text)
        IN  /\ treeDataFile'.name = "tree_data.json"
            /\ parsed.ok
            /\ validTreeData(parsed.value)
            /\ Len(parsed.value.branchMatrices) = Len(branchMatrices)
            /\ Len(parsed.value.leafMatrices) = Len(leafMatrices)
            /\ Len(branchMatrices) = treeInstancedMesh.count
            /\ Len(leafMatrices) = leafInstancedMesh.count
            /\ \A i \in 1..Len(branchMatrices) :
                  parsed.value.branchMatrices[i] = toArray(branchMatrices[i])
            /\ \A i \in 1..Len(leafMatrices) :
                  parsed.value.leafMatrices[i] = toArray(leafMatrices[i])

\* once the loader has read a file the editor saved, validation has passed
\* and the loader shows one instance per saved matrix, instance i carrying
\* the i-th saved matrix
C16_Loaded ==
    (loaderFile.name = "tree_data.json" /\ loaderPc # "reading") =>
        LET parsed == JSONparse(loaderFile.text)
        IN  /\ loaderPc = "displayed"
            /\ Len(Displayed(loadedBranchMesh)) = Len(parsed.value.branchMatrices)
            /\ Len(Displayed(loadedLeafMesh)) = Len(parsed.value.leafMatrices)
            /\ \A i \in 1..Len(parsed.value.branchMatrices) :
                  toArray(Displayed(loadedBranchMesh)[i]) = parsed.value.branchMatrices[i]
            /\ \A i \in 1..Len(parsed.value.leafMatrices) :
                  toArray(Displayed(loadedLeafMesh)[i]) = parsed.value.leafMatrices[i]

\* C16: every tree_data.json that saveFullTreeData writes passes the tree
\* loader's validation, and the loader displays as many branch and leaf
\* instances as the editor had generated, instance i carrying the i-th saved
\* matrix, in the same order.
C16_SaveLoadRoundTrip == [][C16_SaveStep]_vars /\ []C16_Loaded

\* the loader shows the tree the editor shows: at least three branches and
\* four leaves, the same matrices in the same order
C16_Witness ==
    /\ pc = "shown"
    /\ loaderPc = "displayed"
    /\ loaderFile = treeDataFile
    /\ Len(branchMatrices) >= 3
    /\ Len(leafMatrices) >= 4
    /\ Displayed(loadedBranchMesh) = branchMatrices
    /\ Displayed(loadedLeafMesh) = leafMatrices

-----------------------------------------------------------------------------
(* Random draws of a terminal segment *)

\* the original wording: four draws for a terminal segment that emits leaves,
\* none for one that emits none
C21_AsStated ==
    \A k \in 1..Len(callLog) :
        callLog[k].terminal =>
            callLog[k].nDraws = (IF callLog[k].nLeaf > 0 THEN 4 ELSE 0)

\* C21: a terminal segment that emits leaves consumes exactly six draws from
\* the random source (three for the rotation of each of its two leaves), and
\* a stopping call that emits no leaves consumes none.
C21_SixDrawsPerLeafPair ==
    \A k \in 1..Len(callLog) :
        (callLog[k].terminal \/ callLog[k].limit) =>
            /\ callLog[k].nLeaf > 0 => (callLog[k].nLeaf = 2 /\ callLog[k].nDraws = 6)
            /\ callLog[k].nLeaf = 0 => callLog[k].nDraws = 0

\* a finished call in which a terminal segment pushed its two leaves and the
\* trunk's loop drew three numbers for each of its two children
C21_Witness ==
    /\ pc = "done"
    /\ Len(callLog) >= 3
    /\ callLog[1].nChildren = 2
    /\ callLog[1].nDraws = 6
    /\ \E k \in 2..Len(callLog) :
          /\ callLog[k].terminal
          /\ callLog[k].nLeaf = 2
          /\ callLog[k].nDraws = 6
          /\ leafOrigin[callLog[k].leafBefore + 1] = k
          /\ leafOrigin[callLog[k].leafBefore + 2] = k

-----------------------------------------------------------------------------
(* Placement of the children of one node *)

\* the call with index k in the log was made by the child loop of call p
ChildOf(k, p) == callLog[k].parent = p /\ p > 0

\* the rotation a child call's base transform ends with: spread about Y, then
\* tilt about X
SpreadOf(k) == callLog[k].parentMatrix[Len(callLog[k].parentMatrix) - 1].y

TiltOf(k) == callLog[k].parentMatrix[Len(callLog[k].parentMatrix)].x

\* 0.6 * angleStep, in 1/100 degree
SixTenthsOfStep(c) == (angleStep(c) * 6) \div 10

\* C22: for numBranches > 1 the spread angle of child i+1 exceeds that of
\* child i of the same node by at least 0.6 * angleStep, and the last child's
\* spread angle stays at least 0.6 * angleStep short of the first child's plus
\* 360 degrees; for numBranches = 1 the spread angle is exactly 0.
C22_SpreadAnglesApart ==
    (config.kind = "object" /\ callLog # << >>) =>
        LET c == config.fields
        IN  \A k \in 1..Len(callLog), m \in 1..Len(callLog) :
                (callLog[k].parent > 0 /\ ChildOf(m, callLog[k].parent)) =>
                    /\ (numBranchesOf(c) > 1 /\ callLog[m].index = callLog[k].index + 1)
                          => SpreadOf(m) - SpreadOf(k) >= SixTenthsOfStep(c)
                    /\ (numBranchesOf(c) > 1 /\ callLog[k].index = 0
                            /\ callLog[m].index = numBranchesOf(c) - 1)
                          => (SpreadOf(k) + 36000) - SpreadOf(m) >= SixTenthsOfStep(c)
                    /\ numBranchesOf(c) = 1 => SpreadOf(k) = 0

\* two children of one node whose jitters pulled them towards each other: the
\* first drew the largest number and the second the smallest
C22_Witness ==
    /\ config.kind = "object"
    /\ numBranchesOf(config.fields) = 2
    /\ \E k \in 1..Len(callLog), m \in 1..Len(callLog) :
          /\ ChildOf(k, callLog[m].parent)
          /\ callLog[k].index = 0
          /\ callLog[m].index = 1
          /\ SpreadOf(k) = spreadVar(config.fields, 99)
          /\ SpreadOf(m) = angleStep(config.fields) + spreadVar(config.fields, 0)
          /\ SpreadOf(m) - SpreadOf(k) < angleStep(config.fields)

-----------------------------------------------------------------------------
(* Composition of the transforms *)

\* the transform record the model keeps for makeTranslation(0, y, 0)
TranslateY(y) == [op |-> "translate", x |-> 0, y |-> y, z |-> 0]

\* C23: every emitted branch with base transform P, length L and radius
\* r = max(radius, minRadius) has world transform
\* P . translate(0, L/2, 0) . scale(2r, L, 2r), and every child of that branch
\* is called with base transform P . translate(0, L, 0) . R_i, R_i being a
\* rotation about Y (spread) followed by a rotation about X (tilt).
C23_TransformComposition ==
    (config.kind = "object") =>
        /\ \A j \in 1..Len(branchMatrices) :
              LET e == callLog[branchOrigin[j]]
                  r == Max(e.radius, minRadiusOf(config.fields))
              IN  branchMatrices[j] =
                      e.parentMatrix \o
                        << TranslateY(e.length \div 2),
                           [op |-> "scale", x |-> 2 * r, y |-> e.length, z |-> 2 * r] >>
        /\ \A k \in 1..Len(callLog) :
              callLog[k].parent > 0 =>
                  LET e == callLog[callLog[k].parent]
                  IN  /\ e.nBranch = 1
                      /\ Len(callLog[k].parentMatrix) = Len(e.parentMatrix) + 3
                      /\ callLog[k].parentMatrix =
                            e.parentMatrix \o
                              << TranslateY(e.length),
                                 [op |-> "rotateY", x |-> 0, y |-> SpreadOf(k), z |-> 0],
                                 [op |-> "rotateX", x |-> TiltOf(k), y |-> 0, z |-> 0] >>

\* a branch two levels up whose two children both start at its tip, each with
\* its own rotation
C23_Witness ==
    /\ pc = "done"
    /\ \E j \in 1..Len(branchMatrices) :
          /\ callLog[branchOrigin[j]].level = 1
          /\ Len(branchMatrices[j]) = 5
          /\ \E k \in 1..Len(callLog), m \in 1..Len(callLog) :
                /\ ChildOf(k, branchOrigin[j])
                /\ ChildOf(m, branchOrigin[j])
                /\ SpreadOf(k) # SpreadOf(m)
                /\ SubSeq(callLog[k].parentMatrix, 1, 4)
                     = SubSeq(callLog[m].parentMatrix, 1, 4)

-----------------------------------------------------------------------------
(* collectBranchDataRecursive as a function of its arguments and the draws *)

RECURSIVE collectBranchDataRecursive(_, _, _, _, _, _, _)
RECURSIVE childLoop(_, _, _, _, _, _, _, _)

\* collectBranchDataRecursive(branchMatricesArray, leafMatricesArray, config,
\* estimatedMaxInstances, level, parentMatrix, length, radius); acc holds the
\* two arrays and the position of the random stream, the value is acc after
\* the call
collectBranchDataRecursive(c, budget, acc, level, parentMatrix, length, radius) ==
    LET terminal == isTerminal(c, level, length, radius)
        limit    == reachedLimit(Len(acc.branch), Len(acc.leaf), budget)
    IN  IF terminal \/ limit
        THEN IF isLeafSegment(terminal, level)
                  /\ canAddLeaves(Len(acc.leaf), budget)
             THEN [branch |-> acc.branch,
                   leaf   |-> acc.leaf \o
                       << leafMatrixBase(c, parentMatrix, RandAt(acc.pos, 0),
                                         RandAt(acc.pos, 1), RandAt(acc.pos, 2)),
                          leafMatrixTip(c, parentMatrix, length, RandAt(acc.pos, 3),
                                        RandAt(acc.pos, 4), RandAt(acc.pos, 5)) >>,
                   pos    |-> (acc.pos + drawsOfLeaves(2)) % Len(rngTape)]
             ELSE acc
        ELSE childLoop(c, budget,
                 [acc EXCEPT !.branch =
                      Append(@, worldMatrix(c, parentMatrix, length, radius))],
                 level, parentMatrix, length, radius, 0)

\* the child loop from iteration i on
childLoop(c, budget, acc, level, parentMatrix, length, radius, i) ==
    IF i >= numBranchesOf(c)
          \/ loopLimit(Len(acc.branch), Len(acc.leaf), budget)
    THEN acc
    ELSE LET child ==
                 collectBranchDataRecursive(c, budget,
                     [acc EXCEPT !.pos = (@ + 3) % Len(rngTape)],
                     level + 1,
                     nextParentMatrix(c, parentMatrix, length, i,
                                      RandAt(acc.pos, 1), RandAt(acc.pos, 2)),
                     nextLength(c, length, RandAt(acc.pos, 0)),
                     nextRadius(c, radius))
         IN  childLoop(c, budget, child, level, parentMatrix, length,
                       radius, i + 1)

\* the level-0 call of generateTreeMatrices under a given budget, the random
\* stream at position pos
levelZeroCall(c, budget, pos) ==
    collectBranchDataRecursive(c, budget,
        [branch |-> << >>, leaf |-> << >>, pos |-> pos],
        0, Identity, initialLengthOf(c), initialRadiusOf(c))

\* generateTreeMatrices(config) as a function: ok is false when it throws
generateTreeMatrices(arg, pos) ==
    IF NotConfig(arg)
    THEN [ok |-> TRUE, branchMatrices |-> << >>, leafMatrices |-> << >>, pos |-> pos]
    ELSE IF arg.kind # "object"
    THEN [ok |-> FALSE, branchMatrices |-> << >>, leafMatrices |-> << >>, pos |-> pos]
    ELSE LET out == levelZeroCall(arg.fields, estimatedMaxOf(arg.fields), pos)
         IN  [ok |-> TRUE, branchMatrices |-> out.branch, leafMatrices |-> out.leaf,
              pos |-> out.pos]

-----------------------------------------------------------------------------
(* The budget of integer configurations *)

\* a generateTreeMatrices call on maxDepth an integer >= 1 and numBranches an
\* integer >= 1
C24_IntegerTree ==
    /\ IsObject
    /\ pc \in {"running", "done"}
    /\ maxDepthOf(config.fields) % 2 = 0
    /\ maxDepthOf(config.fields) >= 2
    /\ numBranchesOf(config.fields) >= 1

\* C24: for integer maxDepth >= 1 and integer numBranches >= 1 the budget the
\* facade computes is never reached: limitReached is false at every call of
\* the recursion, the child loop never breaks out early, and the returned
\* sequences are those of the same recursion, on the same draws, under a
\* budget no tree reaches.
C24_BudgetNeverReached ==
    C24_IntegerTree =>
        /\ estimatedMax = estimatedMaxOf(config.fields)
        /\ \A k \in Calls : ~callLog[k].limit /\ ~LimitedCall(callLog[k])
        /\ (stack # << >> /\ Top.entered /\ Top.i < numBranchesOf(config.fields))
              => ~loopLimit(Len(branchMatrices), Len(leafMatrices), estimatedMax)
        /\ pc = "done" =>
              /\ \A k \in Calls :
                    callLog[k].nBranch = 1 =>
                        callLog[k].nChildren = numBranchesOf(config.fields)
              /\ \E run \in {levelZeroCall(config.fields, Huge, rngStart)} :
                    /\ result.branchMatrices = run.branch
                    /\ result.leafMatrices = run.leaf

\* the full tree of depth 2 with 2 children per node, under the budget
\* ceil(2.25 * 7) = 16
C24_Witness ==
    /\ C24_IntegerTree
    /\ pc = "done"
    /\ maxDepthOf(config.fields) = 4
    /\ numBranchesOf(config.fields) = 2
    /\ estimatedMax = 16
    /\ Len(result.branchMatrices) = 3
    /\ Len(result.leafMatrices) = 8

-----------------------------------------------------------------------------
(* Depth 0 and full trees *)

\* C25: for a configuration with maxDepth = 0 generateTreeMatrices returns two
\* empty sequences: the level-0 call is terminal, so not even the trunk is
\* emitted, and level 0 never emits leaves.
C25_DepthZeroReturnsEmpty ==
    (IsObject /\ pc \in {"running", "done"} /\ maxDepthOf(config.fields) = 0) =>
        /\ branchMatrices = << >>
        /\ leafMatrices = << >>
        /\ \A k \in Calls :
              /\ k = 1
              /\ callLog[k].level = 0
              /\ callLog[k].terminal
              /\ callLog[k].nBranch = 0
              /\ callLog[k].nLeaf = 0
        /\ pc = "done" =>
              /\ Len(callLog) = 1
              /\ result = [branchMatrices |-> << >>, leafMatrices |-> << >>]

\* a finished call on a trunk long and thick enough to be emitted at any
\* maxDepth above 0, with 2 children per node, and maxDepth 0
C25_Witness ==
    /\ IsObject
    /\ pc = "done"
    /\ "maxDepth" \in DOMAIN config.fields
    /\ config.fields["maxDepth"] = 0
    /\ numBranchesOf(config.fields) = 2
    /\ initialLengthOf(config.fields) > 100
    /\ initialRadiusOf(config.fields) >= minRadiusOf(config.fields)
    /\ Len(callLog) = 1
    /\ callLog[1].terminal
    /\ result = [branchMatrices |-> << >>, leafMatrices |-> << >>]

RECURSIVE LengthAt(_, _)
\* the length of a segment at a level, all lengthVariance factors being 1
LengthAt(c, level) ==
    IF level = 0 THEN initialLengthOf(c)
    ELSE baseNextLength(c, LengthAt(c, level - 1))

RECURSIVE RadiusAt(_, _)
\* the radius a call at a level is handed
RadiusAt(c, level) ==
    IF level = 0 THEN initialRadiusOf(c)
    ELSE baseNextRadius(c, RadiusAt(c, level - 1))

\* no segment above level maxDepth is cut by the minRadius or 0.01-length
\* threshold
NoSegmentCut(c) ==
    \A level \in 0..((maxDepthOf(c) \div 2) - 1) :
        /\ LengthAt(c, level) > MinSegmentLength
        /\ RadiusAt(c, level) >= minRadiusOf(c)

\* lengthVariance 0, integer maxDepth >= 1, integer numBranches >= 1, no
\* segment cut by a threshold
C26_FullTree ==
    /\ IsObject
    /\ lengthVarianceOf(config.fields) = 0
    /\ maxDepthOf(config.fields) % 2 = 0
    /\ maxDepthOf(config.fields) >= 2
    /\ numBranchesOf(config.fields) >= 1
    /\ NoSegmentCut(config.fields)

\* C26: with lengthVariance = 0, integer maxDepth >= 1, integer
\* numBranches >= 1 and no segment above level maxDepth cut by a threshold,
\* generateTreeMatrices returns exactly sum of numBranches^i for
\* i = 0 .. maxDepth - 1 branch transforms and exactly
\* 2 * numBranches^maxDepth leaf transforms, whatever the draws are.
C26_ExactCounts ==
    (pc = "done" /\ C26_FullTree) =>
        LET nb == numBranchesOf(config.fields)
            d  == maxDepthOf(config.fields) \div 2
        IN  /\ Len(result.branchMatrices) = SumPowers(nb, d - 1)
            /\ Len(result.leafMatrices) = 2 * Pow(nb, d)

\* the full tree of depth 2 with 2 children per node: 1 + 2 branches and
\* 2 * 4 leaves, on draws that are not all the same
C26_Witness ==
    /\ pc = "done"
    /\ C26_FullTree
    /\ maxDepthOf(config.fields) = 4
    /\ numBranchesOf(config.fields) = 2
    /\ Len(result.branchMatrices) = 3
    /\ Len(result.leafMatrices) = 8
    /\ ~Pinned

-----------------------------------------------------------------------------
(* The editor and the module on the same configuration and draws *)

\* the ranges of the editor's sliders: maxDepth 1..10 and numBranches 1..5 in
\* steps of 1, initialLength 1..20, initialRadius 0.1..2, lengthFactor
\* 0.4..0.95, branchAngle 5..90, radiusFactor 0.3..0.95, minRadius 0.01..0.2,
\* angleVariance 0..45, lengthVariance 0..50, leafSize 0.1..2
InSliderRanges(c) ==
    /\ c["maxDepth"] % 2 = 0
    /\ c["maxDepth"] \in (2 * 1)..(2 * 10)
    /\ c["numBranches"] \in 1..5
    /\ c["initialLength"] \in 10000..200000
    /\ c["initialRadius"] \in 1000..20000
    /\ c["lengthFactor"] \in 40..95
    /\ c["branchAngle"] \in 5..90
    /\ c["radiusFactor"] \in 30..95
    /\ c["minRadius"] \in 100..2000
    /\ c["angleVariance"] \in 0..45
    /\ c["lengthVariance"] \in 0..50
    /\ c["leafSize"] \in 1000..20000

\* saveTreeParams(): a copy of config without branchMaterial and
\* maxInstanceEstimateFactor, downloaded as tree_params.json
saveTreeParams(c) ==
    [name |-> "tree_params.json",
     text |-> JSONstringify(Omit(c, {"branchMaterial", "maxInstanceEstimateFactor"}))]

\* C27: for every configuration inside the editor's slider ranges and the same
\* sequence of draws, the editor's estimateMaxInstances and collectBranchData
\* compute the budget and the branch and leaf transforms, in the same order,
\* that the module's generateTreeMatrices computes from the tree_params.json
\* the editor saves.
C27_EditorAndModuleAgree ==
    (pc = "shown" /\ InSliderRanges(config.fields)) =>
        \E loadedConfig \in {JSONparse(saveTreeParams(config.fields).text).value} :
        \E gen \in {generateTreeMatrices(ObjectArg(loadedConfig), rngStart)} :
            /\ "maxInstanceEstimateFactor" \notin DOMAIN loadedConfig
            /\ gen.ok
            /\ estimatedMax = estimatedMaxOf(loadedConfig)
            /\ branchMatrices = gen.branchMatrices
            /\ leafMatrices = gen.leafMatrices
            /\ rngPos = gen.pos
            /\ Displayed(treeInstancedMesh) = gen.branchMatrices
            /\ Displayed(leafInstancedMesh) = gen.leafMatrices

\* the editor shows the full tree of depth 2 with 2 children per node, with
\* both variances at work
C27_Witness ==
    /\ pc = "shown"
    /\ InSliderRanges(config.fields)
    /\ config.fields["maxDepth"] = 4
    /\ config.fields["numBranches"] = 2
    /\ config.fields["lengthVariance"] > 0
    /\ config.fields["angleVariance"] > 0
    /\ estimatedMax = 16
    /\ Len(branchMatrices) = 3
    /\ Len(leafMatrices) = 8
    /\ branchMatrices[2][2].op = "rotateY"
    /\ branchMatrices[2][2].y # 0

-----------------------------------------------------------------------------
(* The parameter loader: handleFileLoad, the FileReader callbacks,         *)
(* displayGeneratedTree and the Regenerate button                          *)

\* how many files the user picks
MaxSelections == 2

\* the files the user may pick: two tree_params.json as saveTreeParams writes
\* them (1 and 2 children per node, depth 1), a text that is not JSON, and the
\* JSON texts null and 5
ParamFiles ==
    {saveTreeParams(With(Structured(GeomEditor, 2, n), "maxInstanceEstimateFactor", 150)) :
        n \in 1..2}
      \cup {[name |-> "notes.txt", text |-> [kind |-> "text"]],
            [name |-> "null.json", text |-> [kind |-> "null"]],
            [name |-> "five.json", text |-> [kind |-> "number"]]}

\* the value JSON.parse returns, as an argument of generateTreeMatrices
loadedConfigOf(parsed) ==
    IF parsed.type = "object" THEN ObjectArg(parsed.value) ELSE NullArg

\* loadedConfig && typeof loadedConfig === 'object'
validParams(parsed) == parsed.type = "object"

\* a failed attempt that leaves the stored configuration alone
afterFailedLoadKept(stored) == stored

\* currentConfig = null, in the else branch, the catch block and reader.onerror
afterFailedLoad(stored) == NullArg

\* displayGeneratedTree(config) with the random stream at pos: the meshes it
\* leaves in generatedBranchMesh and generatedLeafMesh, and the stream after
displayGeneratedTree(arg, pos) ==
    LET gen         == generateTreeMatrices(arg, pos)
        branchCount == Len(gen.branchMatrices)
        leafCount   == Len(gen.leafMatrices)
    IN  [branchMesh |-> IF branchCount = 0 THEN NoMesh
                        ELSE InstancedMesh(gen.branchMatrices, branchCount),
         leafMesh   |-> IF branchCount = 0 \/ leafCount = 0 THEN NoMesh
                        ELSE InstancedMesh(gen.leafMatrices, leafCount),
         pos        |-> gen.pos]

\* handleFileLoad: a file was picked; a new FileReader starts reading it
ParamHandleFileLoad ==
    /\ Len(readers) < MaxSelections
    /\ \E file \in ParamFiles :
         readers' = Append(readers, [file |-> file, state |-> "reading"])
    /\ plEvent' = [handler |-> "change", generated |-> FALSE, config |-> NullArg]
    /\ UNCHANGED <<currentConfig, regenerateButton, generatedBranchMesh,
                   generatedLeafMesh>>
    /\ UNCHANGED <<pc, config, estimatedMax, branchMatrices, leafMatrices, stack, result,
                   rngTape, rngPos, rngStart, prev, estCalls, callLog, branchOrigin,
                   leafOrigin>>
    /\ UNCHANGED ioVars

\* reader.onload of any FileReader still reading: parse, check, store,
\* display, enable the button; on a parse error or a value that is no object,
\* forget the configuration and disable the button
ParamReaderOnLoad ==
    /\ \E r \in 1..Len(readers) :
         /\ readers[r].state = "reading"
         /\ \E parsed \in {JSONparse(readers[r].file.text)} :
              IF parsed.ok /\ validParams(parsed)
              THEN \E shown \in {displayGeneratedTree(loadedConfigOf(parsed), rngPos)} :
                     /\ currentConfig' = loadedConfigOf(parsed)
                     /\ generatedBranchMesh' = shown.branchMesh
                     /\ generatedLeafMesh' = shown.leafMesh
                     /\ rngPos' = shown.pos
                     /\ regenerateButton' = [disabled |-> FALSE]
                     /\ readers' = [readers EXCEPT ![r].state = "loaded"]
                     /\ plEvent' = [handler |-> "onload", generated |-> TRUE,
                                    config |-> loadedConfigOf(parsed)]
              ELSE /\ currentConfig' = afterFailedLoad(currentConfig)
                   /\ regenerateButton' = [disabled |-> TRUE]
                   /\ readers' = [readers EXCEPT
                                    ![r].state = IF parsed.ok THEN "invalid" ELSE "parseError"]
                   /\ plEvent' = [handler |-> "onload", generated |-> FALSE,
                                  config |-> NullArg]
                   /\ UNCHANGED <<generatedBranchMesh, generatedLeafMesh, rngPos>>
    /\ UNCHANGED <<pc, config, estimatedMax, branchMatrices, leafMatrices, stack, result,
                   rngTape, rngStart, prev, estCalls, callLog, branchOrigin, leafOrigin>>
    /\ UNCHANGED ioVars

\* reader.onerror of any FileReader still reading
ParamReaderOnError ==
    /\ \E r \in 1..Len(readers) :
         /\ readers[r].state = "reading"
         /\ readers' = [readers EXCEPT ![r].state = "readError"]
    /\ currentConfig' = afterFailedLoad(currentConfig)
    /\ regenerateButton' = [disabled |-> TRUE]
    /\ plEvent' = [handler |-> "onerror", generated |-> FALSE, config |-> NullArg]
    /\ UNCHANGED <<generatedBranchMesh, generatedLeafMesh>>
    /\ UNCHANGED <<pc, config, estimatedMax, branchMatrices, leafMatrices, stack, result,
                   rngTape, rngPos, rngStart, prev, estCalls, callLog, branchOrigin,
                   leafOrigin>>
    /\ UNCHANGED ioVars

\* a click on the Regenerate button, which a disabled button does not get:
\* if (currentConfig) displayGeneratedTree(currentConfig)
RegenerateClick ==
    /\ ~regenerateButton.disabled
    /\ IF ~NotConfig(currentConfig)
       THEN \E shown \in {displayGeneratedTree(currentConfig, rngPos)} :
              /\ generatedBranchMesh' = shown.branchMesh
              /\ generatedLeafMesh' = shown.leafMesh
              /\ rngPos' = shown.pos
              /\ plEvent' = [handler |-> "click", generated |-> TRUE,
                             config |-> currentConfig]
       ELSE /\ plEvent' = [handler |-> "click", generated |-> FALSE, config |-> NullArg]
            /\ UNCHANGED <<generatedBranchMesh, generatedLeafMesh, rngPos>>
    /\ UNCHANGED <<currentConfig, regenerateButton, readers>>
    /\ UNCHANGED <<pc, config, estimatedMax, branchMatrices, leafMatrices, stack, result,
                   rngTape, rngStart, prev, estCalls, callLog, branchOrigin, leafOrigin>>
    /\ UNCHANGED ioVars

ParamLoaderNext ==
    \/ ParamHandleFileLoad
    \/ ParamReaderOnLoad
    \/ ParamReaderOnError
    \/ RegenerateClick

\* param_loader.html is not among the sources: the button starts as the page
\* declares it, disabled or not
InitParamLoader ==
    InitState({[disabled |-> b] : b \in BOOLEAN})

SpecParamLoader == InitParamLoader /\ [][ParamLoaderNext]_vars

-----------------------------------------------------------------------------
(* The parameter loader's button and stored configuration *)

\* a load attempt has completed: a FileReader has called back
Completed(r) == readers[r].state # "reading"

\* after a completed attempt the button is disabled exactly when
\* currentConfig is null
C28_ButtonTracksConfig ==
    (\E r \in 1..Len(readers) : Completed(r)) =>
        (regenerateButton.disabled <=> currentConfig = NullArg)

\* the step that completes an attempt stores the parsed object and enables
\* the button, or, on any failure, stores null and disables the button
C28_AttemptStep ==
    \A r \in 1..Len(readers) :
        (Len(readers') = Len(readers) /\ ~Completed(r) /\ readers'[r].state # "reading") =>
            IF readers'[r].state = "loaded"
            THEN /\ currentConfig' = loadedConfigOf(JSONparse(readers[r].file.text))
                 /\ currentConfig'.kind = "object"
                 /\ ~regenerateButton'.disabled
            ELSE /\ currentConfig' = NullArg
                 /\ regenerateButton'.disabled
                 /\ readers'[r].state =
                        (IF plEvent'.handler = "onerror" THEN "readError"
                         ELSE IF JSONparse(readers[r].file.text).ok THEN "invalid"
                         ELSE "parseError")

\* a click generates from currentConfig when it is not null, and does nothing
\* when it is; it changes neither currentConfig nor the button
C28_ClickStep ==
    (plEvent'.handler = "click" /\ plEvent' # plEvent) =>
        /\ plEvent'.generated <=> currentConfig # NullArg
        /\ plEvent'.generated => plEvent'.config = currentConfig
        /\ ~plEvent'.generated =>
              UNCHANGED <<generatedBranchMesh, generatedLeafMesh, rngPos>>
        /\ UNCHANGED <<currentConfig, regenerateButton>>

\* C28: in the parameter loader, after every completed load attempt
\* (successful parse of an object, parse error, non-object JSON or read error)
\* the Regenerate button is disabled if and only if currentConfig is null;
\* any failed attempt sets currentConfig to null even when a valid
\* configuration had been loaded before, and a click on Regenerate triggers
\* generation only while currentConfig is non-null.
C28_ButtonIffConfig ==
    /\ []C28_ButtonTracksConfig
    /\ [][C28_AttemptStep /\ C28_ClickStep]_vars

\* a configuration was loaded and displayed, then a failed attempt set
\* currentConfig to null and disabled the button; the tree is still shown
C28_Witness ==
    /\ \E r \in 1..Len(readers) : readers[r].state = "loaded"
    /\ \E r \in 1..Len(readers) : readers[r].state \in {"invalid", "parseError", "readError"}
    /\ currentConfig = NullArg
    /\ regenerateButton.disabled
    /\ generatedBranchMesh.kind = "mesh"

\* C29 as stated: when two files were picked one after the other and both
\* were read and parsed successfully, currentConfig and the tree displayed
\* are those of the file picked last, whatever the order of the two callbacks.
C29_AsStated ==
    (Len(readers) = 2 /\ readers[1].state = "loaded" /\ readers[2].state = "loaded") =>
        \E last \in {loadedConfigOf(JSONparse(readers[2].file.text))} :
            /\ currentConfig = last
            /\ \E pos \in 0..(Len(rngTape) - 1) :
                  \E shown \in {displayGeneratedTree(last, pos)} :
                      /\ generatedBranchMesh = shown.branchMesh
                      /\ generatedLeafMesh = shown.leafMesh

====
